---- MODULE Spec2Model ----
(***************************************************************************)
(* Ingredient vetting pipeline of FirstPledgePlatform:                     *)
(*   server/services/aiVettingService.ts        (orchestrator)             *)
(*   server/services/ingredientAnalysisService.ts (analysis cache)         *)
(*   server/services/researchService.ts         (citation search)          *)
(*   server/services/ewgService.ts              (score lookup)             *)
(*   server/services/providers/*.ts             (classifier backends)      *)
(*   server/index.ts                            (POST /api/vet-ingredients)*)
(*                                                                         *)
(* Every await of the code is one step of a request; the outcome of the    *)
(* external call that the await waits for is the parameter of the action   *)
(* that resumes the request.  Times are whole days, confidences are tenths.*)
(***************************************************************************)
EXTENDS Integers, Sequences, FiniteSets, TLC

\* ------------------------------------------------------------------ bounds
MaxTime == 3          \* the clock stops advancing here
MaxVersion == 3       \* the store rejects an update to a higher analysis_version
MaxRows == 2          \* the store rejects an insert when it holds this many rows
MaxErrors == 5        \* the search API stops failing when the counter is here
MaxBatch == 3         \* longest ingredient list of a batch request
MaxNameLen == 2       \* longest ingredient name (in characters)
MaxAttempts == 4      \* attempt and calls.ai count up to here: it stands for "or more"

\* ------------------------------------------------- values and small helpers
Absent == "absent"    \* undefined / null / a missing JSON field (strings)
NoNumber == 0 - 1     \* null / undefined where the code holds a number
SafetyStatus == {"safe", "caution", "banned"}

\* ---------------------------------------------------------------- names
\* Characters: two ASCII letters in both cases, the dotless i (U+0131), whose
\* upper case is the ASCII "I", and the space.
Chars == {"a", "A", "i", "I", "i_dotless", " "}

toLowerCaseChar(c) ==
  CASE c = "A" -> "a"
    [] c = "I" -> "i"
    [] c = "Phthalate" -> "phthalate"
    [] OTHER -> c

toUpperCaseChar(c) ==
  CASE c = "a" -> "A"
    [] c = "i" -> "I"
    [] c = "i_dotless" -> "I"
    [] OTHER -> c

toLowerCase(s) == [k \in 1..Len(s) |-> toLowerCaseChar(s[k])]
toUpperCase(s) == [k \in 1..Len(s) |-> toUpperCaseChar(s[k])]

RECURSIVE trimStart(_)
trimStart(s) ==
  IF s # <<>> /\ Head(s) = " " THEN trimStart(Tail(s)) ELSE s

RECURSIVE trimEnd(_)
trimEnd(s) ==
  IF s # <<>> /\ s[Len(s)] = " " THEN trimEnd(SubSeq(s, 1, Len(s) - 1)) ELSE s

trim(s) == trimEnd(trimStart(s))

\* normalizeIngredientName without the lower-casing
normalizeWithoutLowerCase(name) == trim(name)

normalizeIngredientName(name) == trim(toLowerCase(name))

\* A string is a sequence of UTF-16 code units; "lone_surrogate" is a
\* surrogate code unit without its pair ("\ud800"), which JSON.parse accepts.
\* encodeURIComponent throws a URIError on a string that holds one.
isWellFormed(name) == \A k \in 1..Len(name) : name[k] # "lone_surrogate"

SeqsUpTo(S, n) == UNION {[1..k -> S] : k \in 1..n}
AllNames == SeqsUpTo(Chars, MaxNameLen)

\* ------------------------------------------------------------ score lookup
\* A fetch: a network error, a non-2xx answer, or a page.  In a page the
\* score pattern matches a number (number >= 0) or does not match (NoNumber);
\* hasLink says whether a search page lists an ingredient link.
PageNumbers == 0..11
Pages ==
  [resp : {"network_error", "not_ok"}, number : {NoNumber}, hasLink : {FALSE}]
  \cup [resp : {"ok"}, number : PageNumbers \cup {NoNumber}, hasLink : BOOLEAN]

NotFoundData(url) == [found |-> FALSE, score |-> NoNumber, url |-> url]

parseEWGPage(page, url) ==
  LET score == page.number
  IN [found |-> score # NoNumber,
      score |-> IF score # NoNumber /\ score >= 1 /\ score <= 10 THEN score ELSE NoNumber,
      url   |-> url]

fetchDirectIngredientPage(page) ==
  IF page.resp = "ok"
  THEN parseEWGPage(page, "ingredient_page")
  ELSE NotFoundData("ingredient_page")

\* parseSearchResults that takes a link for a find
parseSearchResultsLinkFound(page) ==
  IF page.hasLink
  THEN LET score == page.number
       IN [found |-> TRUE,
           score |-> IF score # NoNumber /\ score >= 1 /\ score <= 10 THEN score ELSE NoNumber,
           url   |-> "result_page"]
  ELSE NotFoundData("search_url")

parseSearchResults(page) ==
  IF page.hasLink
  THEN LET score == page.number
       IN [found |-> score # NoNumber,
           score |-> IF score # NoNumber /\ score >= 1 /\ score <= 10 THEN score ELSE NoNumber,
           url   |-> "result_page"]
  ELSE NotFoundData("search_url")

searchEWGDatabase(page) ==
  IF page.resp = "ok" /\ parseSearchResults(page).found
  THEN parseSearchResults(page)
  ELSE NotFoundData("search_url")

getStatusFromScore(score) ==
  IF score = NoNumber THEN Absent
  ELSE IF score >= 1 /\ score <= 4 THEN "safe"
  ELSE IF score >= 5 /\ score <= 7 THEN "caution"
  ELSE IF score >= 8 /\ score <= 10 THEN "banned"
  ELSE Absent

\* ------------------------------------------------------------- classifier
\* AI_PROVIDER with its API key set.  Without the key no AIVettingService is
\* made (index.ts, lines 69-72): provider is "none" then.
Providers == {"gemini", "openai", "groq"}

\* What one call of the provider's API yields: a 429, a decommissioned-model
\* rejection, another error, or a text.  A text is not JSON at all, a JSON
\* object, or a JSON object inside a markdown fence.
ReplyStatus == {Absent, "safe", "caution", "banned", "toxic"}
\* the confidence field, in tenths: missing, 0.0, 0.8, 1.5
ReplyConfidence == {NoNumber, 0, 8, 15}
TextReplies ==
  {[kind |-> "text", form |-> "garbage", status |-> Absent, confidence |-> NoNumber, texts |-> FALSE]}
  \cup [kind : {"text"}, form : {"json", "fenced_json"}, status : ReplyStatus,
        confidence : ReplyConfidence, texts : BOOLEAN]
ErrorReplies ==
  [kind : {"rate_limit", "decommissioned", "error"}, form : {Absent}, status : {Absent},
   confidence : {NoNumber}, texts : {FALSE}]
Replies == TextReplies \cup ErrorReplies

NoOpinion ==
  [status |-> Absent, rationale |-> Absent, description |-> Absent,
   edgeCases |-> Absent, confidence |-> NoNumber]

\* JSON.parse(text) of OpenAIProvider and GroqProvider succeeds on a bare JSON
\* object only; GeminiProvider first cuts the text from the first "{" to the
\* last "}".
Parses(provider, reply) ==
  \/ reply.form = "json"
  \/ reply.form = "fenced_json" /\ provider = "gemini"

\* the record parseResponse returns when the text parses (it throws otherwise)
parseResponse(reply) ==
  [status      |-> IF reply.status # Absent THEN reply.status ELSE "caution",
   rationale   |-> IF reply.texts THEN "classifier" ELSE "requires_review",
   description |-> IF reply.texts THEN "classifier" ELSE "provider_default",
   edgeCases   |-> IF reply.texts THEN "classifier" ELSE "provider_default",
   confidence  |-> IF reply.confidence \notin {NoNumber, 0} THEN reply.confidence ELSE 7]

\* --------------------------------------------------------------- the cache
\* INGREDIENT_REFRESH_DAYS (30 when it is not set), here one day
RefreshDays == 1

\* shouldRefreshAnalysis with >= for >
shouldRefreshAnalysisInclusive(analysis, today) ==
  (today - analysis.lastAnalyzedAt) >= RefreshDays

\* called with an analysis that getAnalysis returned (never null at line 92)
shouldRefreshAnalysis(analysis, today) ==
  (today - analysis.lastAnalyzedAt) > RefreshDays

mapRowToAnalysis(row) ==
  [name |-> row.ingredient_name, status |-> row.status, rationale |-> row.rationale,
   description |-> row.description, edgeCases |-> row.edge_cases,
   sourceUrl |-> row.source_url, confidence |-> row.confidence,
   ewgScore |-> row.ewg_score, researchSources |-> row.research_sources,
   lastAnalyzedAt |-> row.last_analyzed_at]

\* getAnalysis: the analysis stored for the name, as a set: {} is null.  The
\* store answers (ok) or fails.
getAnalysis(table, name, ok) ==
  LET normalizedName == normalizeIngredientName(name)
  IN IF ok /\ normalizedName \in DOMAIN table
     THEN {mapRowToAnalysis(table[normalizedName])}
     ELSE {}

\* ------------------------------------------------------------ orchestrator
buildRationaleFromEWG(ewgData) ==
  IF ewgData.found /\ ewgData.score # NoNumber THEN "ewg_score" ELSE "manual_review"

Or(a, b) == IF a # Absent THEN a ELSE b

\* Merge with the classifier's status taken before the score's
MergeClassifierFirst(name, ewgData, research, ai) ==
  LET status == getStatusFromScore(ewgData.score)
      finalStatus == Or(ai.status, Or(status, "caution"))
  IN [name |-> name,
      status |-> finalStatus,
      rationale |-> Or(ai.rationale, buildRationaleFromEWG(ewgData)),
      description |-> Or(ai.description, "default"),
      edgeCases |-> Or(ai.edgeCases, "default"),
      sourceUrl |-> ewgData.url,
      confidence |-> IF ewgData.found THEN 9
                     ELSE IF ai.confidence \notin {NoNumber, 0} THEN ai.confidence ELSE 5,
      ewgScore |-> ewgData.score,
      researchSources |-> research,
      lastAnalyzedAt |-> NoNumber]

\* Merge that fails open: "safe" when nobody has an opinion
MergeFailOpen(name, ewgData, research, ai) ==
  LET status == getStatusFromScore(ewgData.score)
      finalStatus == Or(status, Or(ai.status, "safe"))
  IN [name |-> name,
      status |-> finalStatus,
      rationale |-> Or(ai.rationale, buildRationaleFromEWG(ewgData)),
      description |-> Or(ai.description, "default"),
      edgeCases |-> Or(ai.edgeCases, "default"),
      sourceUrl |-> ewgData.url,
      confidence |-> IF ewgData.found THEN 9
                     ELSE IF ai.confidence \notin {NoNumber, 0} THEN ai.confidence ELSE 5,
      ewgScore |-> ewgData.score,
      researchSources |-> research,
      lastAnalyzedAt |-> NoNumber]

\* aiVettingService.ts, step 4: combine the score lookup with the classifier
Merge(name, ewgData, research, ai) ==
  LET status == getStatusFromScore(ewgData.score)
      finalStatus == Or(status, Or(ai.status, "caution"))
  IN [name |-> name,
      status |-> finalStatus,
      rationale |-> Or(ai.rationale, buildRationaleFromEWG(ewgData)),
      description |-> Or(ai.description, "default"),
      edgeCases |-> Or(ai.edgeCases, "default"),
      sourceUrl |-> ewgData.url,
      confidence |-> IF ewgData.found THEN 9
                     ELSE IF ai.confidence \notin {NoNumber, 0} THEN ai.confidence ELSE 5,
      ewgScore |-> ewgData.score,
      researchSources |-> research,
      lastAnalyzedAt |-> NoNumber]

\* index.ts, lines 511-537.  A keyword is a run of characters; a name is
\* written here with the run as one element ("phthalate", "Phthalate" with a
\* capital, "sulfate"), so that a name includes a keyword iff the keyword is
\* one of its elements.  One banned and one caution keyword stand for the five
\* of each list.
bannedKeywords == {"phthalate"}
cautionKeywords == {"sulfate"}

\* classifyIngredient that tests the caution keywords first
classifyIngredientCautionFirst(name) ==
  LET normalized == toLowerCase(name)
  IN IF \E k \in DOMAIN normalized : normalized[k] \in cautionKeywords THEN "caution"
     ELSE IF \E k \in DOMAIN normalized : normalized[k] \in bannedKeywords THEN "banned"
     ELSE "safe"

classifyIngredient(name) ==
  LET normalized == toLowerCase(name)
  IN IF \E k \in DOMAIN normalized : normalized[k] \in bannedKeywords THEN "banned"
     ELSE IF \E k \in DOMAIN normalized : normalized[k] \in cautionKeywords THEN "caution"
     ELSE "safe"

\* utils/ewgUrlBuilder.ts, buildEwgUrl: the slug keeps [A-Za-z0-9_-] and the
\* spaces of the name; with an empty slug the URL is the home page, for
\* caution it is the search URL, built with encodeURIComponent (line 30),
\* which throws on a name that is not well-formed.
isWordChar(c) == c \notin {" ", "lone_surrogate", "i_dotless"}

buildEwgUrl(name, status) ==
  IF \A k \in DOMAIN name : ~isWordChar(name[k])
  THEN [threw |-> FALSE, url |-> "home_page"]
  ELSE IF status = "caution"
  THEN IF isWellFormed(name) THEN [threw |-> FALSE, url |-> "search_url"]
       ELSE [threw |-> TRUE, url |-> Absent]
  ELSE [threw |-> FALSE, url |-> "ingredient_page"]

\* index.ts, lines 540-552: the ingredient that buildVetResult makes of a line
keywordIngredient(line) ==
  LET status == classifyIngredient(line)
  IN [name |-> line, status |-> status, rationale |-> status,
      sourceUrl |-> buildEwgUrl(line, status).url,
      originalStatus |-> status, isOverride |-> FALSE]

\* index.ts
RECURSIVE includes(_, _)
includes(statuses, s) ==
  IF statuses = <<>> THEN FALSE
  ELSE IF Head(statuses) = s THEN TRUE
  ELSE includes(Tail(statuses), s)

\* deriveOverallStatus with the two tests in the other order
deriveOverallStatusCautionFirst(statuses) ==
  IF includes(statuses, "caution") THEN "caution"
  ELSE IF includes(statuses, "banned") THEN "banned"
  ELSE "safe"

deriveOverallStatus(statuses) ==
  IF includes(statuses, "banned") THEN "banned"
  ELSE IF includes(statuses, "caution") THEN "caution"
  ELSE "safe"

\* ------------------------------------------------------------------ state
Procs == {"r1", "r2", "r3"}     \* requests that can be in flight together

VARIABLES
  now,                \* Date.now(), in days
  rows,               \* table ingredient_analyses: ingredient_name -> row
  consecutiveErrors,  \* ResearchService.consecutiveErrors
  groqModel,          \* GroqProvider.model (index into fallbackModels)
  lastRequestTime,    \* ResearchService.lastRequestTime (NoNumber: never set)
  provider,           \* AIVettingService.providerType ("none": no aiVettingService)
  analysisService,    \* TRUE iff AIVettingService.analysisService is set
  researchService,    \* TRUE iff AIVettingService.researchService is set
  req,                \* per request: position and locals of the handler
  products,           \* table products (with its ingredients): id -> row
  draftCall           \* per request: position and locals of createDraftFromProduct

config == <<provider, analysisService, researchService>>
catalogue == <<products, draftCall>>
vars == <<now, rows, consecutiveErrors, groqModel, lastRequestTime, config, req, catalogue>>

\* Product ids: the published products of the catalogue, and the ids that
\* randomUUID() gives to drafts.  hasIngredients: the product has rows in the
\* table ingredients.
MaxDrafts == 2
BaseIds == {1, 2}
DraftIds == 3..(2 + MaxDrafts)
ProductRow(status, from, hasIngredients) ==
  [status |-> status, editedFromProductId |-> from, hasIngredients |-> hasIngredients]
InitialProducts ==
  (1 :> ProductRow("published", NoNumber, TRUE))
    @@ (2 :> ProductRow("published", NoNumber, FALSE))
\* returned: NoNumber before the call returns, 0 for null, else the id of the
\* product it returns.  created: the call inserted a product that is still
\* there; atCall: the drafts of id that existed when the call was made
\* (observation only).
NoDraftCall ==
  [pc |-> "idle", id |-> NoNumber, baseHasIngredients |-> FALSE,
   draftId |-> NoNumber, returned |-> NoNumber, created |-> FALSE, atCall |-> {}]

NoData == NotFoundData(Absent)
NoResult == Merge(<<>>, NoData, <<>>, NoOpinion)
\* What the current analyzeIngredient call has done so far (observation only):
\* ewg, fetches, ai count the requests sent to the score lookup, the search
\* API and the classifier; search counts the searchIngredient calls; read is
\* what step 0 found; classifier is how the provider's call ended (a status,
\* "unparseable" or "error"); writes counts the rows written; version is the
\* analysis_version of the row that step 0 read (0: it read none);
\* clientErrors counts the searches that the search API answered with a 4xx
\* other than 429; openAt is the value of consecutiveErrors that made the
\* searchIngredient call return at once (NoNumber: it did not).
NoCalls ==
  [ewg |-> 0, search |-> 0, fetches |-> 0, ai |-> 0, read |-> "none",
   version |-> 0, classifier |-> Absent, writes |-> 0, clientErrors |-> 0,
   openAt |-> NoNumber]
\* overallStatus and ingredients: the body of POST /api/vet-ingredients;
\* analysis: the body of POST /api/admin/ingredient-analyses/:name/refresh ({}: none)
NoResponse == [overallStatus |-> Absent, ingredients |-> <<>>, analysis |-> {}]

Idle ==
  [pc |-> "idle", endpoint |-> "none", credentials |-> "none", ingredientNames |-> <<>>, i |-> 0, analyses |-> <<>>,
   ewgData |-> NoData, researchSources |-> <<>>, modelsToTry |-> <<>>,
   modelIdx |-> 0, attempt |-> 0, result |-> NoResult, newVersion |-> 0,
   stamp |-> 0, calls |-> NoCalls, response |-> NoResponse]

ingredientName(r) == r.ingredientNames[r.i]

statusesOf(analyses) == [k \in 1..Len(analyses) |-> analyses[k].status]

maxConsecutiveErrors == 3
maxRetries == 3

\* ------------------------------------- the synchronous stretches of the code
\* server/index.ts, line 422: the URL of an ingredient page of the score database
isProperEwgIngredientPage(sourceUrl) == sourceUrl \in {"ingredient_page", "result_page"}

\* toIngredient that marks a status that differs from the classifier's
\* opinion as an override
toIngredientOverride(analysis, sourceUrl) ==
  [name |-> analysis.name, status |-> analysis.status, rationale |-> analysis.rationale,
   sourceUrl |-> sourceUrl, originalStatus |-> "caution",
   isOverride |-> analysis.status # "caution",
   description |-> analysis.description, edgeCases |-> analysis.edgeCases,
   ewgScore |-> analysis.ewgScore, researchSources |-> analysis.researchSources]

\* server/index.ts, lines 436-451: the ingredient of the response
toIngredient(analysis, sourceUrl) ==
  [name |-> analysis.name, status |-> analysis.status, rationale |-> analysis.rationale,
   sourceUrl |-> sourceUrl, originalStatus |-> analysis.status, isOverride |-> FALSE,
   description |-> analysis.description, edgeCases |-> analysis.edgeCases,
   ewgScore |-> analysis.ewgScore, researchSources |-> analysis.researchSources]

\* server/index.ts, lines 454-457: the response of POST /api/vet-ingredients
Respond(r, urls) ==
  LET ingredients == [k \in 1..Len(r.analyses) |-> toIngredient(r.analyses[k], urls[k])]
  IN [r EXCEPT !.pc = "responded",
        !.response = [overallStatus |-> deriveOverallStatus(statusesOf(ingredients)),
                      ingredients |-> ingredients, analysis |-> {}]]

\* Complete that puts the new analysis before the others
CompletePrepend(r, analysis, citation) ==
  LET all == <<analysis>> \o r.analyses
      cleared == [r EXCEPT !.analyses = all, !.ewgData = NoData,
                    !.researchSources = <<>>, !.modelsToTry = <<>>, !.modelIdx = 0,
                    !.attempt = 0, !.result = NoResult, !.newVersion = 0, !.stamp = 0]
  IN IF r.endpoint = "refresh"
     THEN [cleared EXCEPT !.pc = "responded", !.response.analysis = {analysis}]
     ELSE IF r.i < Len(r.ingredientNames)
     THEN [cleared EXCEPT !.pc = "delay"]
     ELSE IF citation /\ \E k \in 1..Len(all) : ~isProperEwgIngredientPage(all[k].sourceUrl)
     THEN [cleared EXCEPT !.pc = "enhance"]
     ELSE Respond(cleared, [k \in 1..Len(all) |-> all[k].sourceUrl])

\* analyzeIngredient returned the analysis of the current name.  The refresh
\* handler sends it (index.ts, line 343); analyzeIngredients sleeps before the
\* next name (lines 247-257) or returns to the handler, which awaits the
\* citation searches if there is any to do (index.ts, lines 414-434).
Complete(r, analysis, citation) ==
  LET all == Append(r.analyses, analysis)
      cleared == [r EXCEPT !.analyses = all, !.ewgData = NoData,
                    !.researchSources = <<>>, !.modelsToTry = <<>>, !.modelIdx = 0,
                    !.attempt = 0, !.result = NoResult, !.newVersion = 0, !.stamp = 0]
  IN IF r.endpoint = "refresh"
     THEN [cleared EXCEPT !.pc = "responded", !.response.analysis = {analysis}]
     ELSE IF r.i < Len(r.ingredientNames)
     THEN [cleared EXCEPT !.pc = "delay"]
     ELSE IF citation /\ \E k \in 1..Len(all) : ~isProperEwgIngredientPage(all[k].sourceUrl)
     THEN [cleared EXCEPT !.pc = "enhance"]
     ELSE Respond(cleared, [k \in 1..Len(all) |-> all[k].sourceUrl])

\* analyzeIngredient, line 88: step 0 awaits getAnalysis if the storage is on
StartIngredient(r, storage) ==
  [r EXCEPT !.pc = IF storage THEN "cache_check" ELSE "ewg_direct",
            !.calls = [NoCalls EXCEPT !.ewg = IF storage THEN 0 ELSE 1]]

\* GroqProvider.analyzeIngredient, line 133
ModelsToTry(model) ==
  <<model>> \o SelectSeq(<<1, 2, 3>>, LAMBDA m : m # model)

\* the provider's analyzeIngredient threw or returned: lines 128-159
AfterClassifier(r0, ai, how, storage, citation) ==
  LET r == [r0 EXCEPT !.calls.classifier = IF how = "parsed" THEN ai.status ELSE how]
      result == Merge(ingredientName(r), r.ewgData, r.researchSources, ai)
  IN IF storage
     THEN [r EXCEPT !.result = result, !.pc = "upsert_get"]
     ELSE Complete(r, result, citation)

\* lines 119-127: the provider is called
AfterSearch(r, research, model) ==
  [r EXCEPT !.researchSources = research, !.pc = "classify", !.attempt = 1,
            !.modelsToTry = ModelsToTry(model), !.modelIdx = 1,
            !.calls.ai = 1]

\* AfterEwg without the gate on the score lookup's result
AfterEwgAlwaysSearch(r, data, research, errors, model) ==
  LET r1 == [r EXCEPT !.ewgData = data]
  IN IF research
     THEN LET r2 == [r1 EXCEPT !.calls.search = 1]
          IN IF errors >= maxConsecutiveErrors
             THEN AfterSearch([r2 EXCEPT !.calls.openAt = errors], <<>>, model)
             ELSE [r2 EXCEPT !.pc = "search_healthline", !.calls.fetches = 1]
     ELSE AfterSearch(r1, <<>>, model)

\* AfterEwg with a breaker that opens one error late
AfterEwgLateBreaker(r, data, research, errors, model) ==
  LET ewgDataUnavailable == ~data.found \/ data.score = NoNumber
      r1 == [r EXCEPT !.ewgData = data]
  IN IF ewgDataUnavailable /\ research
     THEN LET r2 == [r1 EXCEPT !.calls.search = 1]
          IN IF errors > maxConsecutiveErrors
             THEN AfterSearch([r2 EXCEPT !.calls.openAt = errors], <<>>, model)
             ELSE [r2 EXCEPT !.pc = "search_healthline", !.calls.fetches = 1]
     ELSE AfterSearch(r1, <<>>, model)

\* lines 101-117 and ResearchService.searchIngredient, lines 30-47
AfterEwg(r, data, research, errors, model) ==
  LET ewgDataUnavailable == ~data.found \/ data.score = NoNumber
      r1 == [r EXCEPT !.ewgData = data]
  IN IF ewgDataUnavailable /\ research
     THEN LET r2 == [r1 EXCEPT !.calls.search = 1]
          IN IF errors >= maxConsecutiveErrors
             THEN AfterSearch([r2 EXCEPT !.calls.openAt = errors], <<>>, model)
             ELSE [r2 EXCEPT !.pc = "search_healthline", !.calls.fetches = 1]
     ELSE AfterSearch(r1, <<>>, model)

\* ---------------------------------------------------------------- actions
Init ==
  /\ now = 0
  /\ rows = << >>
  /\ consecutiveErrors = 0
  /\ groqModel = 1
  /\ lastRequestTime = NoNumber
  /\ provider \in Providers
  /\ analysisService \in BOOLEAN
  /\ researchService \in BOOLEAN
  /\ req = [p \in Procs |-> Idle]
  /\ products = InitialProducts
  /\ draftCall = [p \in Procs |-> NoDraftCall]

\* The handler answers with an error status: 500 from its catch (index.ts,
\* lines 344-347 and 466-473), 503 if there is no aiVettingService (337-339).
Reject(r) == [r EXCEPT !.pc = "failed"]

\* index.ts, lines 459-463 and 539-559: without aiVettingService the handler
\* answers with buildVetResult(lines), or with 500 if that throws
buildVetResult(r, lines) ==
  LET ingredients == [k \in 1..Len(lines) |-> keywordIngredient(lines[k])]
  IN IF \E k \in 1..Len(lines) : buildEwgUrl(lines[k], classifyIngredient(lines[k])).threw
     THEN Reject(r)
     ELSE [r EXCEPT !.pc = "responded",
             !.response = [overallStatus |-> deriveOverallStatus(statusesOf(ingredients)),
                           ingredients |-> ingredients, analysis |-> {}]]

\* What the Authorization header of a request holds: nothing, a token that
\* nobody issued, the JWT of a user without the admin role, the JWT of an
\* admin, or the admin API key.
Credentials == {"none", "invalid", "user_jwt", "admin_jwt", "api_key"}

\* middleware/auth.ts, requireAuth, where the authentication keys are
\* configured: TRUE iff it calls next()
requireAuth(credentials) == credentials \in {"admin_jwt", "api_key"}

\* POST /api/vet-ingredients: items are the pieces of ingredientsText between
\* commas and newlines; a text without a name is answered with 400.  The route
\* has no middleware: the credentials of the request are not looked at.
Submit(p, items, credentials) ==
  LET lines == SelectSeq([k \in 1..Len(items) |-> trim(items[k])], LAMBDA item : item # <<>>)
      r == [Idle EXCEPT !.endpoint = "vet", !.credentials = credentials,
                        !.ingredientNames = lines]
  IN /\ req[p].pc \in {"idle", "responded", "failed"}
     /\ lines # <<>>
     /\ req' = [req EXCEPT ![p] =
          IF provider = "none" THEN buildVetResult(r, lines)
          ELSE StartIngredient([r EXCEPT !.i = 1], analysisService)]
     /\ UNCHANGED <<now, rows, consecutiveErrors, groqModel, lastRequestTime, config, catalogue>>

\* POST /api/admin/ingredient-analyses/:name/refresh:
\* analyzeIngredient(req.params.name), behind requireAuth
Refresh(p, name, credentials) ==
  /\ req[p].pc \in {"idle", "responded", "failed"}
  /\ requireAuth(credentials)
  /\ req' = [req EXCEPT ![p] =
       LET r == [Idle EXCEPT !.endpoint = "refresh", !.credentials = credentials,
                             !.ingredientNames = <<name>>, !.i = 1]
       IN IF provider = "none" THEN Reject(r)
          ELSE StartIngredient(r, analysisService)]
  /\ UNCHANGED <<now, rows, consecutiveErrors, groqModel, lastRequestTime, config, catalogue>>

\* getAnalysis answered (ok: the store answered without an error)
CacheCheck(p, ok) ==
  LET r == req[p]
      key == normalizeIngredientName(ingredientName(r))
      storedAnalysis == getAnalysis(rows, ingredientName(r), ok)
  IN /\ r.pc = "cache_check"
     /\ IF \E a \in storedAnalysis : ~shouldRefreshAnalysis(a, now)
        THEN req' = [req EXCEPT ![p] =
               Complete([r EXCEPT !.calls.read = "hit",
                                  !.calls.version = rows[key].analysis_version],
                        CHOOSE a \in storedAnalysis : TRUE, researchService)]
        ELSE req' = [req EXCEPT ![p] =
               [r EXCEPT !.pc = "ewg_direct", !.calls.ewg = 1,
                         !.calls.read = IF ~ok THEN "error"
                                        ELSE IF storedAnalysis = {} THEN "miss"
                                        ELSE "stale",
                         !.calls.version = IF storedAnalysis = {} THEN 0
                                           ELSE rows[key].analysis_version]]
     /\ UNCHANGED <<now, rows, consecutiveErrors, groqModel, lastRequestTime, config, catalogue>>

\* ResearchService.rateLimit, line 95, called before each search (lines 46,
\* 58, 70): lastRequestTime after a step that leaves the request at r2
rateLimitAlways(r2, last, today) == today

rateLimit(r2, last, today) ==
  IF r2.pc \in {"search_healthline", "search_pubmed", "search_fda"} THEN today ELSE last

\* EWGService.searchIngredient: the direct page was fetched.  Without a score
\* on it, searchEWGDatabase builds the search URL with encodeURIComponent
\* (part_023, line 96) before its try; the catch of searchIngredient builds
\* the same URL (line 52), so a URIError leaves searchIngredient, and
\* analyzeIngredient, which calls it outside any try (aiVettingService.ts, 99).
EwgDirect(p, page) ==
  LET r == req[p]
      directResult == fetchDirectIngredientPage(page)
  IN /\ r.pc = "ewg_direct"
     /\ IF directResult.found
        THEN req' = [req EXCEPT ![p] = AfterEwg(r, directResult, researchService, consecutiveErrors, groqModel)]
        ELSE IF isWellFormed(ingredientName(r))
        THEN req' = [req EXCEPT ![p] = [r EXCEPT !.pc = "ewg_search", !.calls.ewg = 2]]
        ELSE req' = [req EXCEPT ![p] = Reject(r)]
     /\ lastRequestTime' = rateLimit(req'[p], lastRequestTime, now)
     /\ UNCHANGED <<now, rows, consecutiveErrors, groqModel, config, catalogue>>

\* EWGService.searchIngredient: the search page was fetched
EwgSearch(p, page) ==
  LET r == req[p]
  IN /\ r.pc = "ewg_search"
     /\ req' = [req EXCEPT ![p] =
          AfterEwg(r, searchEWGDatabase(page), researchService, consecutiveErrors, groqModel)]
     /\ lastRequestTime' = rateLimit(req'[p], lastRequestTime, now)
     /\ UNCHANGED <<now, rows, consecutiveErrors, groqModel, config, catalogue>>

Tick ==
  /\ now < MaxTime
  /\ now' = now + 1
  /\ UNCHANGED <<rows, consecutiveErrors, groqModel, lastRequestTime, config, req, catalogue>>

\* ResearchService.handleSearchError
handleSearchErrorCountsAll(errors, error) == errors + 1

handleSearchError(errors, error) ==
  LET isServerError == error = "server_error"
      isQuotaError == error = "quota"
  IN IF isQuotaError THEN errors + 1
     ELSE IF isServerError /\ errors = 0 THEN errors + 1
     ELSE errors

\* Array.prototype.sort by descending relevance (stable)
RECURSIVE insertByRelevance(_, _)
insertByRelevance(x, sorted) ==
  IF sorted = <<>> THEN <<x>>
  ELSE IF Head(sorted).relevance >= x.relevance
       THEN <<Head(sorted)>> \o insertByRelevance(x, Tail(sorted))
       ELSE <<x>> \o sorted

RECURSIVE sortByRelevance(_)
sortByRelevance(results) ==
  IF results = <<>> THEN <<>>
  ELSE insertByRelevance(Head(results), sortByRelevance(Tail(results)))

\* What one Google search yields: an item (with its relevance, in tenths), no
\* item, or an error: 429 / quota, 5xx, another 4xx.
SearchItems == [kind : {"item"}, relevance : {4, 9}]
SearchErrors == [kind : {"quota", "server_error", "client_error"}, relevance : {0}]
SearchOutcomes == SearchItems \cup SearchErrors \cup {[kind |-> "none", relevance |-> 0]}

SourceOf(pc) ==
  CASE pc = "search_healthline" -> "healthline"
    [] pc = "search_pubmed" -> "pubmed"
    [] pc = "search_fda" -> "fda"

\* searchIngredient, lines 44-81: the search of one source answered
SearchStep(p, outcome) ==
  LET r == req[p]
      results == IF outcome.kind = "item"
                 THEN Append(r.researchSources,
                             [source |-> SourceOf(r.pc), relevance |-> outcome.relevance])
                 ELSE r.researchSources
      r1 == [r EXCEPT !.researchSources = results,
                      !.calls.clientErrors =
                         IF outcome.kind = "client_error" THEN @ + 1 ELSE @]
  IN /\ r.pc \in {"search_healthline", "search_pubmed", "search_fda"}
     /\ outcome.kind \in {"quota", "server_error"} => consecutiveErrors < MaxErrors
     /\ consecutiveErrors' =
          IF outcome.kind = "item" THEN 0
          ELSE IF outcome.kind = "none" THEN consecutiveErrors
          ELSE handleSearchError(consecutiveErrors, outcome.kind)
     /\ req' = [req EXCEPT ![p] =
          CASE r.pc = "search_healthline" ->
                 [r1 EXCEPT !.pc = "search_pubmed", !.calls.fetches = 2]
            [] r.pc = "search_pubmed" ->
                 [r1 EXCEPT !.pc = "search_fda", !.calls.fetches = 3]
            [] r.pc = "search_fda" ->
                 AfterSearch(r1, sortByRelevance(results), groqModel)]
     /\ lastRequestTime' = rateLimit(req'[p], lastRequestTime, now)
     /\ UNCHANGED <<now, rows, groqModel, config, catalogue>>

\* a count of attempts or calls, read as "MaxAttempts or more" at MaxAttempts
UpTo(n) == IF n < MaxAttempts THEN n ELSE MaxAttempts

\* The provider's API call answered.
\* GeminiProvider.analyzeIngredient, lines 36-52
GeminiReply(p, reply) ==
  LET r == req[p]
  IN /\ r.pc = "classify" /\ provider = "gemini"
     /\ req' = [req EXCEPT ![p] =
          IF reply.kind = "text" /\ Parses("gemini", reply)
          THEN AfterClassifier(r, parseResponse(reply), "parsed", analysisService, researchService)
          ELSE IF reply.kind = "text"
               THEN AfterClassifier(r, NoOpinion, "unparseable", analysisService, researchService)
          ELSE IF reply.kind = "rate_limit" /\ r.attempt < maxRetries
               THEN [r EXCEPT !.pc = "backoff"]
               ELSE AfterClassifier(r, NoOpinion, "error", analysisService, researchService)]
     /\ UNCHANGED <<now, rows, consecutiveErrors, groqModel, lastRequestTime, config, catalogue>>

\* OpenAIProvider.analyzeIngredient, lines 31-50
OpenAIReply(p, reply) ==
  LET r == req[p]
  IN /\ r.pc = "classify" /\ provider = "openai"
     /\ req' = [req EXCEPT ![p] =
          IF reply.kind = "text" /\ Parses("openai", reply)
          THEN AfterClassifier(r, parseResponse(reply), "parsed", analysisService, researchService)
          ELSE IF reply.kind = "text"
               THEN AfterClassifier(r, NoOpinion, "unparseable", analysisService, researchService)
          ELSE IF reply.kind = "rate_limit"
               THEN [r EXCEPT !.pc = "backoff"]
               ELSE AfterClassifier(r, NoOpinion, "error", analysisService, researchService)]
     /\ UNCHANGED <<now, rows, consecutiveErrors, groqModel, lastRequestTime, config, catalogue>>

\* GroqProvider.analyzeIngredient, lines 135-187
GroqReply(p, reply) ==
  LET r == req[p]
      modelToUse == r.modelsToTry[r.modelIdx]
      last == r.modelIdx = Len(r.modelsToTry)
      next == [r EXCEPT !.modelIdx = @ + 1, !.calls.ai = UpTo(@ + 1)]
  IN /\ r.pc = "classify" /\ provider = "groq"
     /\ groqModel' = IF reply.kind = "text" THEN modelToUse ELSE groqModel
     /\ req' = [req EXCEPT ![p] =
          IF reply.kind = "text" /\ Parses("groq", reply)
          THEN AfterClassifier(r, parseResponse(reply), "parsed", analysisService, researchService)
          ELSE IF reply.kind = "decommissioned" /\ ~last THEN next
          ELSE IF reply.kind = "rate_limit"
               THEN [r EXCEPT !.pc = "backoff"]
          ELSE IF last
               THEN AfterClassifier(r, NoOpinion,
                      IF reply.kind = "text" THEN "unparseable" ELSE "error",
                      analysisService, researchService)
          ELSE next]
     /\ UNCHANGED <<now, rows, consecutiveErrors, lastRequestTime, config, catalogue>>

\* The sleep after a 429 ended: GeminiProvider goes round its loop (lines
\* 43-47), OpenAIProvider and GroqProvider call analyzeIngredient again
\* (openaiProvider.ts, lines 44-48 and 169-172), GroqProvider starting over
\* with the model it holds by now.
Backoff(p) ==
  LET r == req[p]
  IN /\ r.pc = "backoff"
     /\ req' = [req EXCEPT ![p] =
          [r EXCEPT !.pc = "classify", !.attempt = UpTo(@ + 1), !.calls.ai = UpTo(@ + 1),
                    !.modelsToTry = ModelsToTry(groqModel), !.modelIdx = 1]]
     /\ UNCHANGED <<now, rows, consecutiveErrors, groqModel, lastRequestTime, config, catalogue>>

\* The database accepts a row only with a status of safety_status_enum.
RowOf(key, analysis, version, analyzedAt, createdAt) ==
  [ingredient_name |-> key, status |-> analysis.status,
   rationale |-> analysis.rationale, description |-> analysis.description,
   edge_cases |-> analysis.edgeCases, source_url |-> analysis.sourceUrl,
   ewg_score |-> analysis.ewgScore, research_sources |-> analysis.researchSources,
   confidence |-> analysis.confidence, analysis_version |-> version,
   last_analyzed_at |-> analyzedAt, created_at |-> createdAt]

\* upsertAnalysis, line 170: its getAnalysis answered
UpsertGet(p, ok) ==
  LET r == req[p]
      existing == getAnalysis(rows, ingredientName(r), ok) # {}
  IN /\ r.pc = "upsert_get"
     /\ req' = [req EXCEPT ![p] =
          [r EXCEPT !.pc = IF existing THEN "update_read" ELSE "insert", !.stamp = now]]
     /\ UNCHANGED <<now, rows, consecutiveErrors, groqModel, lastRequestTime, config, catalogue>>

\* updateAnalysis, lines 130-136: the select of analysis_version answered
UpdateRead(p, ok) ==
  LET r == req[p]
      key == normalizeIngredientName(ingredientName(r))
      existing == ok /\ key \in DOMAIN rows
  IN /\ r.pc = "update_read"
     /\ req' = [req EXCEPT ![p] =
          [r EXCEPT !.pc = "update_write",
                    !.newVersion = IF existing THEN rows[key].analysis_version + 1 ELSE 1]]
     /\ UNCHANGED <<now, rows, consecutiveErrors, groqModel, lastRequestTime, config, catalogue>>

\* UpdateWrite that writes created_at anew
UpdateWriteNewCreatedAt(p, ok) ==
  LET r == req[p]
      key == normalizeIngredientName(ingredientName(r))
      written == ok /\ r.result.status \in SafetyStatus /\ key \in DOMAIN rows
  IN /\ r.pc = "update_write"
     /\ ok => r.newVersion <= MaxVersion
     /\ rows' = IF written
                THEN [rows EXCEPT ![key] =
                       RowOf(key, r.result, r.newVersion, r.stamp, now)]
                ELSE rows
     /\ req' = [req EXCEPT ![p] =
          Complete([r EXCEPT !.calls.writes = IF written THEN 1 ELSE 0], r.result,
                   researchService)]
     /\ UNCHANGED <<now, consecutiveErrors, groqModel, lastRequestTime, config, catalogue>>

\* updateAnalysis, lines 138-160: the update answered; an error is thrown to
\* analyzeIngredient, which logs it (lines 155-158)
UpdateWrite(p, ok) ==
  LET r == req[p]
      key == normalizeIngredientName(ingredientName(r))
      written == ok /\ r.result.status \in SafetyStatus /\ key \in DOMAIN rows
  IN /\ r.pc = "update_write"
     /\ ok => r.newVersion <= MaxVersion
     /\ rows' = IF written
                THEN [rows EXCEPT ![key] =
                       RowOf(key, r.result, r.newVersion, r.stamp, @.created_at)]
                ELSE rows
     /\ req' = [req EXCEPT ![p] =
          Complete([r EXCEPT !.calls.writes = IF written THEN 1 ELSE 0], r.result,
                   researchService)]
     /\ UNCHANGED <<now, consecutiveErrors, groqModel, lastRequestTime, config, catalogue>>

\* Insert where a failed insert fails the request
InsertFailsRequest(p, ok) ==
  LET r == req[p]
      key == normalizeIngredientName(ingredientName(r))
      written == ok /\ r.result.status \in SafetyStatus /\ key \notin DOMAIN rows
  IN /\ r.pc = "insert"
     /\ ok => Cardinality(DOMAIN rows) < MaxRows
     /\ rows' = IF written
                THEN (key :> RowOf(key, r.result, 1, r.stamp, now)) @@ rows
                ELSE rows
     /\ req' = [req EXCEPT ![p] =
          IF written
          THEN Complete([r EXCEPT !.calls.writes = 1], r.result, researchService)
          ELSE [r EXCEPT !.pc = "responded"]]
     /\ UNCHANGED <<now, consecutiveErrors, groqModel, lastRequestTime, config, catalogue>>

\* saveAnalysis, lines 95-116: the insert answered (ingredient_name is UNIQUE)
Insert(p, ok) ==
  LET r == req[p]
      key == normalizeIngredientName(ingredientName(r))
      written == ok /\ r.result.status \in SafetyStatus /\ key \notin DOMAIN rows
  IN /\ r.pc = "insert"
     /\ ok => Cardinality(DOMAIN rows) < MaxRows
     /\ rows' = IF written
                THEN (key :> RowOf(key, r.result, 1, r.stamp, now)) @@ rows
                ELSE rows
     /\ req' = [req EXCEPT ![p] =
          Complete([r EXCEPT !.calls.writes = IF written THEN 1 ELSE 0], r.result,
                   researchService)]
     /\ UNCHANGED <<now, consecutiveErrors, groqModel, lastRequestTime, config, catalogue>>

\* analyzeIngredients, lines 252-254: the sleep between two ingredients ended
Delay(p) ==
  /\ req[p].pc = "delay"
  /\ req' = [req EXCEPT ![p] = StartIngredient([req[p] EXCEPT !.i = @ + 1], analysisService)]
  /\ UNCHANGED <<now, rows, consecutiveErrors, groqModel, lastRequestTime, config, catalogue>>

\* What the three searches of one findBestCitation call yield.  searchGoogle
\* (seed.ts, lines 222-254) returns the first item or null (no item, a
\* non-2xx answer, an error); for the EWG search the item's link is under
\* ewg.org/skindeep or it is not.
CitationAnswers ==
  [ewg : {"skindeep", "other", "none"}, fda : {"item", "none"}, pubmed : {"item", "none"}]

\* findBestCitation that asks the FDA before EWG
findBestCitationFdaFirst(name, answer) ==
  IF ~isWellFormed(name)
  THEN [threw |-> TRUE, url |-> Absent, queries |-> <<>>]
  ELSE IF answer.fda = "item"
  THEN [threw |-> FALSE, url |-> "citation_fda", queries |-> <<"fda">>]
  ELSE IF answer.ewg = "skindeep"
  THEN [threw |-> FALSE, url |-> "citation_ewg", queries |-> <<"fda", "ewg">>]
  ELSE IF answer.pubmed = "item"
  THEN [threw |-> FALSE, url |-> "citation_pubmed", queries |-> <<"fda", "ewg", "pubmed">>]
  ELSE [threw |-> FALSE, url |-> "search_url", queries |-> <<"fda", "ewg", "pubmed">>]

\* CitationService.findBestCitation: the URL it returns and the searches it
\* sent, in order.  For a name that is not well-formed every searchGoogle
\* call catches the URIError of its encodeURIComponent before any fetch and
\* returns null, and the encodeURIComponent of the final fallback (line 219)
\* throws.
findBestCitation(name, answer) ==
  IF ~isWellFormed(name)
  THEN [threw |-> TRUE, url |-> Absent, queries |-> <<>>]
  ELSE IF answer.ewg = "skindeep"
  THEN [threw |-> FALSE, url |-> "citation_ewg", queries |-> <<"ewg">>]
  ELSE IF answer.fda = "item"
  THEN [threw |-> FALSE, url |-> "citation_fda", queries |-> <<"ewg", "fda">>]
  ELSE IF answer.pubmed = "item"
  THEN [threw |-> FALSE, url |-> "citation_pubmed", queries |-> <<"ewg", "fda", "pubmed">>]
  ELSE [threw |-> FALSE, url |-> "search_url", queries |-> <<"ewg", "fda", "pubmed">>]

\* the ingredients for which the handler calls findBestCitation (line 422-424)
Searched(r) ==
  {k \in 1..Len(r.analyses) : ~isProperEwgIngredientPage(r.analyses[k].sourceUrl)}

\* index.ts, lines 419-431: the sourceUrl of ingredient k after its
\* findBestCitation call ended with the searches answered by answer
betterUrl(r, k, answer) ==
  LET found == findBestCitation(r.analyses[k].name, answer)
  IN IF k \in Searched(r) /\ ~found.threw THEN found.url ELSE r.analyses[k].sourceUrl

\* server/index.ts, lines 414-434: every findBestCitation call has ended;
\* answers[k] is what the searches for ingredient k yielded
Enhance(p, answers) ==
  LET r == req[p]
  IN /\ r.pc = "enhance"
     /\ DOMAIN answers = 1..Len(r.analyses)
     /\ \A k \in DOMAIN answers \ Searched(r) : answers[k] = [ewg |-> "none", fda |-> "none", pubmed |-> "none"]
     /\ req' = [req EXCEPT ![p] =
          Respond(r, [k \in 1..Len(r.analyses) |-> betterUrl(r, k, answers[k])])]
     /\ UNCHANGED <<now, rows, consecutiveErrors, groqModel, lastRequestTime, config, catalogue>>

\* --------------------------------------------------------- specifications
\* The steps of the orchestrator, the score lookup and the classifier call.
Orchestrate(P, Batches, EwgPages) ==
  \/ \E p \in P, items \in Batches : Submit(p, items, "admin_jwt")
  \/ \E p \in P, page \in EwgPages : EwgDirect(p, page)
  \/ \E p \in P, page \in EwgPages : EwgSearch(p, page)

Classify(P, Answers) ==
  \/ \E p \in P, reply \in Answers : GeminiReply(p, reply)
  \/ \E p \in P, reply \in Answers : OpenAIReply(p, reply)
  \/ \E p \in P, reply \in Answers : GroqReply(p, reply)
  \/ \E p \in P : Backoff(p)

\* The steps of the analysis cache.
Store(P, StoreOk) ==
  \/ \E p \in P, ok \in StoreOk : CacheCheck(p, ok)
  \/ \E p \in P, ok \in StoreOk : UpsertGet(p, ok)
  \/ \E p \in P, ok \in StoreOk : UpdateRead(p, ok)
  \/ \E p \in P, ok \in StoreOk : UpdateWrite(p, ok)
  \/ \E p \in P, ok \in StoreOk : Insert(p, ok)

\* Inputs.  A batch is a list of names; Single(N) are the one-name requests.
Single(N) == {<<n>> : n \in N}
Batches(N, len) == UNION {[1..k -> N] : k \in 1..len}

\* The pipeline without the cache (USE_SUPABASE_STORAGE is not "true"), with
\* the citation search, for each provider; one request at a time.
PipelineReplies == {rp \in Replies : rp.confidence = NoNumber}
PipelineOutcomes == {o \in SearchOutcomes : o.relevance # 4}

Init0 == Init /\ ~analysisService /\ researchService

Next ==
  \/ Orchestrate({"r1"}, Single({<<"a">>}), Pages)
  \/ \E outcome \in PipelineOutcomes : SearchStep("r1", outcome)
  \/ Classify({"r1"}, PipelineReplies)
  \/ \E answers \in [1..1 -> CitationAnswers] : Enhance("r1", answers)

Spec == Init0 /\ [][Next]_vars

\* The pipeline with the cache, without the citation search (no GOOGLE_API_KEY)
\* and with the Gemini provider; one request at a time.
\* Score lookup: a safe score, a banned score, or a network error.
\* Classifier: an error, or a JSON object with a status in or outside the enum.
CachePages == {pg \in Pages : pg.number \in {NoNumber, 2, 9} /\ pg.hasLink = (pg.number # NoNumber)
                              /\ pg.resp # "not_ok" /\ (pg.resp = "ok") = (pg.number # NoNumber)}
CacheReplies ==
  {rp \in Replies : \/ rp.kind = "error"
                    \/ /\ rp.form = "json" /\ rp.status \in {"toxic", "safe"}
                       /\ rp.confidence = NoNumber /\ rp.texts}

InitCache == Init /\ analysisService /\ ~researchService /\ provider = "gemini"

NextCache ==
  \/ Orchestrate({"r1"}, Single({<<"A">>}), CachePages)
  \/ \E reply \in CacheReplies : GeminiReply("r1", reply)
  \/ Store({"r1"}, BOOLEAN)
  \/ Tick

SpecCache == InitCache /\ [][NextCache]_vars

\* Requests in flight together, all for the same name.
ConcurrentPages == {pg \in Pages : pg.resp = "ok" /\ pg.number = 9 /\ pg.hasLink}
ConcurrentReplies == {rp \in Replies : rp.kind = "error"}

NextConcurrent ==
  \/ \E p \in {"r1", "r2"} : Submit(p, <<<<"A">>>>, "admin_jwt")
  \/ \E p \in {"r1", "r2"}, page \in ConcurrentPages : EwgDirect(p, page)
  \/ \E p \in {"r1", "r2"}, reply \in ConcurrentReplies : GeminiReply(p, reply)
  \/ Store({"r1", "r2"}, BOOLEAN)
  \/ Tick

SpecConcurrent == InitCache /\ [][NextConcurrent]_vars

\* Every name, in every letter case and with surrounding spaces; the store
\* answers every call.
NextNames ==
  \/ \E name \in AllNames : Refresh("r1", name, "admin_jwt")
  \/ \E page \in ConcurrentPages : EwgDirect("r1", page)
  \/ \E reply \in ConcurrentReplies : GeminiReply("r1", reply)
  \/ CacheCheck("r1", TRUE)
  \/ UpsertGet("r1", TRUE)
  \/ Insert("r1", TRUE)

SpecNames == InitCache /\ [][NextNames]_vars

\* Batch requests of up to MaxBatch names, without cache and citation search.
InitBatch == Init /\ ~analysisService /\ ~researchService /\ provider = "gemini"

NextBatch ==
  \/ Orchestrate({"r1"}, Batches({<<"a">>, <<" ">>}, MaxBatch), CachePages)
  \/ \E reply \in CacheReplies : GeminiReply("r1", reply)
  \/ Delay("r1")

SpecBatch == InitBatch /\ [][NextBatch]_vars

\* Batch requests under every provider, without cache and citation search,
\* where every external call returns and every sleep ends: a request that is
\* under way takes its next step.  The classifier may answer 429 to every call.
LiveReplies ==
  {rp \in Replies : \/ rp.kind \in {"rate_limit", "error"}
                    \/ /\ rp.form = "json" /\ rp.status = "safe"
                       /\ rp.confidence = NoNumber /\ rp.texts}

InitLive == Init /\ ~analysisService /\ ~researchService

ProgressLive ==
  \/ \E page \in CachePages : EwgDirect("r1", page)
  \/ \E page \in CachePages : EwgSearch("r1", page)
  \/ Classify({"r1"}, LiveReplies)
  \/ Delay("r1")

NextLive ==
  \/ \E items \in Batches({<<"a">>}, 2) : Submit("r1", items, "admin_jwt")
  \/ ProgressLive

SpecLive == InitLive /\ [][NextLive]_vars /\ WF_vars(ProgressLive)

\* Batches of two names with the cache: an entry for each name.
NextSeq ==
  \/ \E items \in Batches({<<"a">>, <<"i">>}, 2) : Submit("r1", items, "admin_jwt")
  \/ \E page \in ConcurrentPages : EwgDirect("r1", page)
  \/ \E reply \in ConcurrentReplies : GeminiReply("r1", reply)
  \/ Store({"r1"}, BOOLEAN)
  \/ Delay("r1")
  \/ Tick

SpecSeq == InitCache /\ [][NextSeq]_vars

\* Every provider and every value of the classifier's confidence field; no
\* cache, no citation search.
ConfidenceReplies ==
  {rp \in Replies : \/ rp.kind = "error"
                    \/ rp.form \in {"json", "fenced_json"} /\ rp.status = "safe" /\ rp.texts}

NextConfidence ==
  \/ Orchestrate({"r1"}, Batches({<<"a">>}, 2), CachePages)
  \/ \E reply \in ConfidenceReplies : GeminiReply("r1", reply)
  \/ \E reply \in ConfidenceReplies : OpenAIReply("r1", reply)
  \/ \E reply \in ConfidenceReplies : GroqReply("r1", reply)
  \/ Delay("r1")

SpecConfidence == InitLive /\ [][NextConfidence]_vars

\* One-name requests for two names with the cache.  The score lookup finds a
\* safe or a banned score, so that a re-analysis can differ from the entry.
UpsertPages == {pg \in Pages : pg.resp = "ok" /\ pg.number \in {2, 9} /\ pg.hasLink}

NextUpsert ==
  \/ \E name \in {<<"a">>, <<"i">>} : Submit("r1", <<name>>, "admin_jwt")
  \/ \E page \in UpsertPages : EwgDirect("r1", page)
  \/ \E reply \in ConcurrentReplies : GeminiReply("r1", reply)
  \/ Store({"r1"}, BOOLEAN)
  \/ Tick

SpecUpsert == InitCache /\ [][NextUpsert]_vars

\* Requests with every kind of credentials, to both endpoints; no cache, no
\* citation search.
NextAuth ==
  \/ \E items \in Batches({<<"a">>}, 2), credentials \in Credentials :
       Submit("r1", items, credentials)
  \/ \E credentials \in Credentials : Refresh("r1", <<"a">>, credentials)
  \/ \E page \in CachePages : EwgDirect("r1", page)
  \/ \E page \in CachePages : EwgSearch("r1", page)
  \/ \E reply \in CacheReplies : GeminiReply("r1", reply)
  \/ Delay("r1")

SpecAuth == InitBatch /\ [][NextAuth]_vars

\* ------------------------------------------------------------------ claims
Done(r) == r.pc \in {"delay", "enhance", "responded"}
\* the analysis the last completed analyzeIngredient call returned
Last(r) == r.analyses[Len(r.analyses)]
\* the call that returned it computed it (it was not served from the cache)
Computed(r) == Done(r) /\ r.calls.read # "hit"

TierOf(score) ==
  IF score \in 1..4 THEN "safe" ELSE IF score \in 5..7 THEN "caution" ELSE "banned"

\* C1: an analysis that was computed with a score in 1..10 has the status of
\* the score's tier (1..4 safe, 5..7 caution, 8..10 banned), whatever status
\* the classifier returned.
C1_ScoreDecidesStatus ==
  \A p \in Procs :
    /\ Computed(req[p]) /\ Last(req[p]).ewgScore \in 1..10
         => Last(req[p]).status = TierOf(Last(req[p]).ewgScore)
    /\ \A k \in 1..Len(req[p].response.ingredients) :
         req[p].response.ingredients[k].ewgScore \in 1..10
           => req[p].response.ingredients[k].status
                = TierOf(req[p].response.ingredients[k].ewgScore)

\* score 9 and a classifier that answered "safe": the analysis is banned
C1_Witness ==
  \E p \in Procs :
    /\ Computed(req[p])
    /\ Last(req[p]).ewgScore = 9
    /\ req[p].calls.classifier = "safe"
    /\ Last(req[p]).status = "banned"

\* C2: the status of every analysis, returned or in a response, is one of
\* safe, caution, banned.
C2_StatusInEnum ==
  \A p \in Procs :
    /\ \A k \in 1..Len(req[p].analyses) : req[p].analyses[k].status \in SafetyStatus
    /\ \A k \in 1..Len(req[p].response.ingredients) :
         req[p].response.ingredients[k].status \in SafetyStatus

\* C3: searchIngredient is called, and search requests are sent, only in an
\* analyzeIngredient call whose score lookup gave found = false or no score;
\* only then has the analysis research sources.
C3_SearchOnlyWithoutScore ==
  \A p \in Procs :
    LET r == req[p]
        searched == r.calls.search > 0 \/ r.calls.fetches > 0
    IN /\ r.pc \in {"search_healthline", "search_pubmed", "search_fda", "classify", "backoff",
                    "upsert_get", "update_read", "update_write", "insert"}
            => (searched \/ r.researchSources # <<>>
                  => ~r.ewgData.found \/ r.ewgData.score = NoNumber)
       /\ Computed(r) => (searched => Last(r).ewgScore = NoNumber)
       /\ \A k \in 1..Len(r.analyses) :
            r.analyses[k].researchSources # <<>> => r.analyses[k].ewgScore = NoNumber

\* a page without a usable score, a search, and a result in the analysis
C3_Witness ==
  \E p \in Procs :
    /\ Computed(req[p])
    /\ req[p].calls.search = 1 /\ req[p].calls.fetches = 3
    /\ Last(req[p]).researchSources # <<>>
    /\ Last(req[p]).ewgScore = NoNumber

Complete_Record(a) ==
  /\ a.status # Absent /\ a.rationale # Absent /\ a.description # Absent
  /\ a.edgeCases # Absent /\ a.sourceUrl # Absent /\ a.confidence # NoNumber

\* C9 as claimed: when the classifier's reply is unparseable text the call
\* returns a complete record whose status is caution.
C9_UnparseableGivesCaution ==
  \A p \in Procs :
    Computed(req[p]) /\ req[p].calls.classifier = "unparseable"
      => Complete_Record(Last(req[p])) /\ Last(req[p]).status = "caution"

\* C9 as amended: when the classifier's reply is unparseable text the call
\* returns a complete record; its status is the status of the score's tier if
\* the score lookup gave a score, and caution if it gave none.
C9_UnparseableGivesFallback ==
  \A p \in Procs :
    Computed(req[p]) /\ req[p].calls.classifier = "unparseable"
      => /\ Complete_Record(Last(req[p]))
         /\ Last(req[p]).status =
              IF Last(req[p]).ewgScore = NoNumber THEN "caution"
              ELSE TierOf(Last(req[p]).ewgScore)

\* unparseable text and no score: caution
C9_Witness ==
  \E p \in Procs :
    /\ Computed(req[p]) /\ req[p].calls.classifier = "unparseable"
    /\ Last(req[p]).ewgScore = NoNumber
    /\ Last(req[p]).status = "caution"

\* C10: a searchIngredient call that starts while consecutiveErrors >= maxConsecutiveErrors
\* returns the empty list at once, sends no search request and leaves the
\* counter alone; the counter goes down only when a search yields a result,
\* and then to 0.
C10_BreakerSkipsSearch ==
  [][/\ \A p \in Procs :
         (req[p].calls.search = 0 /\ req'[p].calls.search = 1 /\ consecutiveErrors >= maxConsecutiveErrors)
            => /\ req'[p].calls.fetches = 0
               /\ req'[p].researchSources = <<>>
               /\ req'[p].pc = "classify"
               /\ consecutiveErrors' = consecutiveErrors
     /\ consecutiveErrors' < consecutiveErrors
          => /\ consecutiveErrors' = 0
             /\ \E p \in Procs :
                  Len(req'[p].researchSources) = Len(req[p].researchSources) + 1]_vars

\* the breaker is open and a call was skipped: the classifier is being asked
C10_Witness ==
  \E p \in Procs :
    /\ consecutiveErrors >= maxConsecutiveErrors
    /\ req[p].pc = "classify"
    /\ req[p].calls.search = 1 /\ req[p].calls.fetches = 0

Range(f) == {f[k] : k \in DOMAIN f}
Perms(n) == {f \in [1..n -> 1..n] : Range(f) = 1..n}

\* C8: the overallStatus of a response is banned if a status is banned, else
\* caution if a status is caution, else safe, and deriveOverallStatus gives
\* the same for every permutation of the list.
C8_OverallIsWorst ==
  \A p \in Procs :
    req[p].pc = "responded" /\ req[p].endpoint = "vet" =>
      LET statuses == statusesOf(req[p].response.ingredients)
          worst == IF "banned" \in Range(statuses) THEN "banned"
                   ELSE IF "caution" \in Range(statuses) THEN "caution"
                   ELSE "safe"
      IN /\ req[p].response.overallStatus = worst
         /\ \A f \in Perms(Len(statuses)) :
              deriveOverallStatus([k \in 1..Len(statuses) |-> statuses[f[k]]]) = worst

\* a caution before a banned: banned
C8_Witness ==
  \E p \in Procs :
    /\ req[p].pc = "responded"
    /\ Len(req[p].response.ingredients) >= 2
    /\ req[p].response.ingredients[1].status = "caution"
    /\ req[p].response.ingredients[2].status = "banned"
    /\ req[p].response.overallStatus = "banned"

KeyOf(r) == normalizeIngredientName(ingredientName(r))
\* request p gets the answer of step 0 (getAnalysis) in this step
Step0(p) == req[p].pc = "cache_check" /\ req'[p].pc # "cache_check"
\* the name of p has an entry whose age is within the refresh window
FreshEntry(p) ==
  /\ KeyOf(req[p]) \in DOMAIN rows
  /\ now - rows[KeyOf(req[p])].last_analyzed_at <= RefreshDays
\* p returns the stored record in this step, and has done nothing else
Served(p) ==
  LET row == rows[KeyOf(req[p])]
      a == Last(req'[p])
  IN /\ Done(req'[p])
     /\ Len(req'[p].analyses) = Len(req[p].analyses) + 1
     /\ a.status = row.status /\ a.rationale = row.rationale
     /\ a.description = row.description /\ a.edgeCases = row.edge_cases
     /\ a.sourceUrl = row.source_url /\ a.confidence = row.confidence
     /\ a.ewgScore = row.ewg_score /\ a.lastAnalyzedAt = row.last_analyzed_at
     /\ req'[p].calls.ewg = 0 /\ req'[p].calls.search = 0 /\ req'[p].calls.fetches = 0
     /\ req'[p].calls.ai = 0 /\ req'[p].calls.writes = 0
     /\ rows' = rows

\* C4 as claimed: a call for a name whose entry exists and is within the
\* refresh window returns the stored record, sends no request to the score
\* lookup, the citation search or the classifier, and leaves the table as it is.
C4_FreshEntryIsServed ==
  [][\A p \in Procs : Step0(p) /\ FreshEntry(p) => Served(p)]_vars

\* C4 as amended: the same, provided the store answers the read of step 0
\* (getAnalysis returns null when the store reports an error, and the call
\* then runs the pipeline).
C4_FreshEntryIsServedWhenRead ==
  [][\A p \in Procs :
       Step0(p) /\ FreshEntry(p) /\ req'[p].calls.read # "error" => Served(p)]_vars

\* a hit on an entry whose age is exactly the refresh window
C4_Witness ==
  \E p \in Procs :
    /\ Done(req[p]) /\ req[p].calls.read = "hit"
    /\ KeyOf(req[p]) \in DOMAIN rows
    /\ now - rows[KeyOf(req[p])].last_analyzed_at = RefreshDays

\* C5: a call for a name whose entry is older than the refresh window ends
\* with the entry at the version it had when the call read it plus 1, and with
\* last_analyzed_at at the time of the re-analysis.
C5_StaleEntryVersionPlusOne ==
  [][\A p \in Procs :
       (req[p].pc \in {"update_write", "insert"} /\ Done(req'[p])
        /\ req[p].calls.read = "stale")
         => /\ KeyOf(req[p]) \in DOMAIN rows'
            /\ rows'[KeyOf(req[p])].analysis_version = req[p].calls.version + 1
            /\ rows'[KeyOf(req[p])].last_analyzed_at = req[p].stamp]_vars

\* C6: the analysis_version of an entry never goes down, and every update
\* that updateAnalysis persists raises it by one.
C6_VersionGrowsByOne ==
  [][\A key \in DOMAIN rows :
       /\ rows'[key].analysis_version >= rows[key].analysis_version
       /\ (\E p \in Procs : /\ req[p].pc = "update_write" /\ KeyOf(req[p]) = key
                            /\ req'[p].calls.writes = 1)
            => rows'[key].analysis_version = rows[key].analysis_version + 1]_vars

\* m and n differ only in letter case and in surrounding spaces
SameLetter(c, d) ==
  \/ c = d
  \/ toUpperCaseChar(c) = d \/ toUpperCaseChar(d) = c
  \/ toLowerCaseChar(c) = d \/ toLowerCaseChar(d) = c
Spaces(s, from, to) == \A k \in from..to : s[k] = " "
Variant(m, n) ==
  \E i \in 0..Len(m), j \in 0..Len(n) :
    \E len \in 0..Len(m) :
      /\ i + len <= Len(m) /\ j + len <= Len(n)
      /\ Spaces(m, 1, i) /\ Spaces(m, i + len + 1, Len(m))
      /\ Spaces(n, 1, j) /\ Spaces(n, j + len + 1, Len(n))
      /\ \A k \in 1..len : SameLetter(m[i + k], n[j + k])
Ascii(n) == \A k \in 1..Len(n) : n[k] # "i_dotless"
Active(r) == r.pc \notin {"idle"}

\* C7 as claimed: the key of a name is the key of the name in upper case, and
\* once upsertAnalysis has stored an entry for n, getAnalysis returns that
\* entry for every name that differs from n in letter case or surrounding
\* spaces only.
C7_KeyIgnoresCase ==
  \A p \in Procs :
    Active(req[p]) =>
      LET n == ingredientName(req[p])
      IN /\ normalizeIngredientName(n) = normalizeIngredientName(toUpperCase(n))
         /\ Done(req[p]) /\ req[p].calls.writes = 1
              => \A m \in AllNames :
                   Variant(m, n) => /\ getAnalysis(rows, m, TRUE) # {}
                                    /\ getAnalysis(rows, m, TRUE) = getAnalysis(rows, n, TRUE)

\* C7 as amended: the same for names of ASCII characters.
C7_KeyIgnoresAsciiCase ==
  \A p \in Procs :
    Active(req[p]) /\ Ascii(ingredientName(req[p])) =>
      LET n == ingredientName(req[p])
      IN /\ normalizeIngredientName(n) = normalizeIngredientName(toUpperCase(n))
         /\ Done(req[p]) /\ req[p].calls.writes = 1
              => \A m \in AllNames :
                   Variant(m, n) /\ Ascii(m)
                     => /\ getAnalysis(rows, m, TRUE) # {}
                        /\ getAnalysis(rows, m, TRUE) = getAnalysis(rows, n, TRUE)

\* " A" was stored, and "a " finds it
C7_Witness ==
  \E p \in Procs :
    /\ Done(req[p]) /\ req[p].calls.writes = 1
    /\ ingredientName(req[p]) = <<" ", "A">>
    /\ getAnalysis(rows, <<"a", " ">>, TRUE) # {}

\* C11: an analyzeIngredient call of a provider makes at most maxRetries
\* attempts, whichever the provider: the attempt in progress is never beyond
\* the third.
C11_AtMostThreeAttempts ==
  \A p \in Procs :
    req[p].pc \in {"classify", "backoff"} => req[p].attempt <= maxRetries

\* C12: every batch request that is under way leads to a response with one
\* entry for each submitted name, provided every external call returns.
C12_BatchResponds ==
  \A p \in Procs :
    (req[p].endpoint = "vet" /\ req[p].pc # "responded")
      ~> (/\ req[p].pc = "responded"
          /\ Len(req[p].response.ingredients) = Len(req[p].ingredientNames))

\* the score lookup found nothing, the citation search gave nothing and the
\* provider failed
TotalFailure(r) ==
  /\ Computed(r)
  /\ Last(r).sourceUrl = "search_url" /\ Last(r).ewgScore = NoNumber
  /\ Last(r).researchSources = <<>>
  /\ r.calls.classifier \in {"error", "unparseable"}

\* C13: after a total failure the analysis has confidence 0, status caution
\* and the rationale that asks for a manual review.
C13_TotalFailureRecord ==
  \A p \in Procs :
    TotalFailure(req[p])
      => /\ Last(req[p]).confidence = 0
         /\ Last(req[p]).status = "caution"
         /\ Last(req[p]).rationale = "manual_review"

\* C16: the pipeline runs for a request to POST /api/vet-ingredients only if
\* the request carries the credentials of an admin.
C16_PipelineOnlyForAdmins ==
  \A p \in Procs :
    req[p].endpoint = "vet" /\ req[p].pc # "idle" => requireAuth(req[p].credentials)

\* the stage of analyzeIngredient that is last when the cache is on: the
\* read of step 0 on a hit, else the write of the upsert
LastStage(r) ==
  IF analysisService THEN r.pc \in {"cache_check", "update_write", "insert"}
  ELSE r.pc \in {"classify"}

\* C14: analyzeIngredients goes to the next name only from the delay, which
\* follows the last stage of every name but the last one; the analyses are in
\* the order of the names.
C14_OneNameAtATime ==
  [][\A p \in Procs :
       LET r == req[p]
           r2 == req'[p]
       IN /\ (r.pc \notin {"idle", "responded"} /\ r2.i # r.i)
               => /\ r.pc = "delay" /\ r2.i = r.i + 1 /\ Len(r.analyses) = r.i
                  /\ r2.pc = IF analysisService THEN "cache_check" ELSE "ewg_direct"
                  /\ r2.analyses = r.analyses
          /\ (r.endpoint = "vet" /\ Len(r2.analyses) = Len(r.analyses) + 1)
               => /\ LastStage(r)
                  /\ (r2.pc = "delay") = (r.i < Len(r.ingredientNames))
                  /\ \A k \in 1..Len(r2.analyses) :
                       r2.analyses[k].name = r2.ingredientNames[k]
          /\ (r.endpoint = "vet" /\ r2.pc = "responded" /\ r.pc # "responded")
               => /\ Len(r2.response.ingredients) = Len(r2.ingredientNames)
                  /\ \A k \in 1..Len(r2.ingredientNames) :
                       r2.response.ingredients[k].name = r2.ingredientNames[k]]_vars

\* the response to "i, a" lists i before a
C14_Witness ==
  \E p \in Procs :
    /\ req[p].pc = "responded"
    /\ req[p].ingredientNames = << <<"i">>, <<"a">> >>
    /\ req[p].response.ingredients[1].name = <<"i">>
    /\ req[p].response.ingredients[2].name = <<"a">>

\* C15: the analysis is fixed before the upsert, and the call returns it
\* whether the store calls of the upsert succeed or fail.
C15_FailedUpsertSameAnalysis ==
  [][\A p \in Procs :
       LET r == req[p]
           r2 == req'[p]
       IN /\ (r.pc \in {"upsert_get", "update_read"} /\ r2 # r)
               => /\ r2.pc \in {"update_read", "update_write", "insert"}
                  /\ r2.result = r.result /\ r2.analyses = r.analyses
          /\ (r.pc \in {"update_write", "insert"} /\ r2 # r)
               => /\ Done(r2)
                  /\ Len(r2.analyses) = Len(r.analyses) + 1
                  /\ Last(r2) = r.result]_vars

\* an analysis that the database would accept was computed, the upsert
\* failed, and the request was answered
C15_Witness ==
  \E p \in Procs :
    /\ req[p].pc = "responded" /\ Computed(req[p])
    /\ req[p].calls.writes = 0
    /\ Last(req[p]).status \in SafetyStatus
    /\ Len(req[p].response.ingredients) = 1

\* C17: the name of the returned analysis is the name as it was submitted.
C17_NameAsSubmitted ==
  \A p \in Procs :
    Done(req[p]) => Last(req[p]).name = ingredientName(req[p])

\* a fetch of the search page that failed: a network error, a non-2xx
\* answer, or a page in which no link or no score is found
FailedSearchPage(page) ==
  page.resp # "ok" \/ ~page.hasLink \/ page.number = NoNumber

\* C18: the score lookup returns in every case (the call goes on to step 2 or
\* 3), and when the direct page failed (the search page is fetched only then)
\* and the search page fails, it returns found = false and no score.
C18_LookupNeverThrows ==
  [][\A p \in Procs :
       LET r == req[p]
           r2 == req'[p]
       IN /\ (r.pc = "ewg_direct" /\ r2 # r)
               => \/ r2.pc = "ewg_search" /\ r2.ewgData = r.ewgData
                  \/ r2.pc \in {"search_healthline", "classify"} /\ r2.ewgData.found
          /\ (r.pc = "ewg_search" /\ r2 # r)
               => /\ r2.pc \in {"search_healthline", "classify"}
                  /\ (\E page \in Pages :
                        /\ FailedSearchPage(page)
                        /\ r2 = AfterEwg(r, searchEWGDatabase(page), researchService,
                                         consecutiveErrors, groqModel))
                       => r2.ewgData = NotFoundData("search_url")]_vars

\* both fetches failed, and the call goes on with found = false
C18_Witness ==
  \E p \in Procs :
    /\ req[p].pc \in {"search_healthline", "classify"}
    /\ req[p].calls.ewg = 2
    /\ ~req[p].ewgData.found /\ req[p].ewgData.score = NoNumber

\* C19: the confidence of every returned analysis is between 0 and 1
\* (0..10 tenths).
C19_ConfidenceInRange ==
  \A p \in Procs :
    \A k \in 1..Len(req[p].analyses) : req[p].analyses[k].confidence \in 0..10

\* the row holds the analysis
Holds(row, analysis) ==
  /\ row.status = analysis.status /\ row.rationale = analysis.rationale
  /\ row.description = analysis.description /\ row.edge_cases = analysis.edgeCases
  /\ row.source_url = analysis.sourceUrl /\ row.ewg_score = analysis.ewgScore
  /\ row.research_sources = analysis.researchSources
  /\ row.confidence = analysis.confidence

\* C20: the table changes only by the write of an upsert.  A write for a name
\* without an entry adds one entry, at analysis_version 1, that holds the
\* analysis; a write for a name with an entry adds no entry, puts the
\* analysis into the entry and keeps its key and created_at.  The other
\* entries stay as they are.
C20_UpsertFrame ==
  [][rows' # rows =>
       \E p \in Procs :
         LET r == req[p]
             key == KeyOf(r)
         IN /\ r.pc \in {"insert", "update_write"} /\ req'[p].calls.writes = 1
            /\ \A other \in DOMAIN rows \ {key} :
                 other \in DOMAIN rows' /\ rows'[other] = rows[other]
            /\ DOMAIN rows' = DOMAIN rows \cup {key}
            /\ Holds(rows'[key], r.result)
            /\ rows'[key].ingredient_name = key
            /\ IF key \in DOMAIN rows
               THEN /\ r.pc = "update_write"
                    /\ rows'[key].created_at = rows[key].created_at
               ELSE /\ r.pc = "insert"
                    /\ rows'[key].analysis_version = 1]_vars

\* two entries, one of them updated after it was created with another status
C20_Witness ==
  /\ Cardinality(DOMAIN rows) = 2
  /\ \E key \in DOMAIN rows :
       /\ rows[key].analysis_version = 2
       /\ rows[key].created_at < rows[key].last_analyzed_at
       /\ rows[key].status = "safe"
  /\ \E p \in Procs : req[p].calls.writes = 1 /\ req[p].calls.read = "stale"
                       /\ Last(req[p]).status = "safe"

\* ---------------------------------------------------------------------
\* C21.  GroqProvider, model fallback (openaiProvider.ts, lines 119-188).

\* the classifier call of request p is under way before and after the step
InClassifier(p) ==
  /\ provider = "groq"
  /\ req[p].pc \in {"classify", "backoff"}
  /\ req'[p].pc \in {"classify", "backoff"}

\* C21: while one request is with the Groq classifier, the models are tried
\* in the order of one list, each model at most once: the list stays the
\* same and the position in it never moves back to a model that was already
\* tried and rejected; and an error reaches the orchestrator only from the
\* last model of the list.
C21_FallbackEachModelOnce ==
  [][\A p \in Procs :
       /\ InClassifier(p) =>
            /\ req'[p].modelsToTry = req[p].modelsToTry
            /\ req'[p].modelIdx >= req[p].modelIdx
       /\ ( /\ provider = "groq" /\ req[p].pc = "classify"
            /\ req'[p].pc \notin {"classify", "backoff"}
            /\ req'[p].calls.classifier \in {"error", "unparseable"} )
          => req[p].modelIdx = Len(req[p].modelsToTry)]_vars

\* ---------------------------------------------------------------------
\* C23, C24.  ResearchService.handleSearchError (researchService.ts, 101-118)
\* within searchIngredient (44-82).

ServerError == [kind |-> "server_error", relevance |-> 0]
ClientError == [kind |-> "client_error", relevance |-> 0]

\* C23: every search that the search API answers with a 5xx adds one to the
\* consecutive-error counter, whatever the counter's value.
C23_ServerErrorCounts ==
  [][\A p \in Procs :
       SearchStep(p, ServerError) => consecutiveErrors' = consecutiveErrors + 1]_vars

\* C24: a search that the search API answers with a 4xx other than 429
\* leaves the consecutive-error counter and the results found so far as they
\* are, and the call goes on: to the next source, and after the last source
\* to the classifier, with the results of the other sources.
C24_ClientErrorIgnored ==
  [][\A p \in Procs :
       LET r == req[p]
           r2 == req'[p]
       IN r2.calls.clientErrors = r.calls.clientErrors + 1 =>
            /\ consecutiveErrors' = consecutiveErrors
            /\ r.pc = "search_healthline" =>
                 r2.pc = "search_pubmed" /\ r2.researchSources = r.researchSources
            /\ r.pc = "search_pubmed" =>
                 r2.pc = "search_fda" /\ r2.researchSources = r.researchSources
            /\ r.pc = "search_fda" =>
                 /\ r2.pc = "classify"
                 /\ r2.researchSources = sortByRelevance(r.researchSources)]_vars

\* Healthline's search was answered with a 4xx; PubMed and the FDA were
\* searched after it, their results are what the classifier gets, and the
\* counter is 0
C24_Witness ==
  \E p \in Procs :
    LET r == req[p]
    IN /\ r.pc = "classify"
       /\ r.calls.clientErrors = 1 /\ r.calls.fetches = 3
       /\ {r.researchSources[n].source : n \in DOMAIN r.researchSources} = {"pubmed", "fda"}
       /\ consecutiveErrors = 0

\* ---------------------------------------------------------------------
\* C22.  POST /api/admin/ingredient-analyses/:name/refresh (index.ts, lines
\* 335-348) and step 0 of analyzeIngredient (aiVettingService.ts, 88-96).

\* C22: a refresh request that was answered has run the score lookup and the
\* classifier again and has written the entry, also when the cache held an
\* entry for the name that was within the refresh window.
C22_RefreshReanalyses ==
  \A p \in Procs :
    LET r == req[p]
    IN (r.endpoint = "refresh" /\ r.pc = "responded") =>
         /\ r.calls.read # "hit"
         /\ r.calls.ewg >= 1 /\ r.calls.ai >= 1
         /\ r.calls.writes = 1

\* ---------------------------------------------------------------------
\* C25.  The confidence of the merge (aiVettingService.ts, line 144) after
\* the providers' parseResponse (geminiProvider.ts 83, openaiProvider.ts 79, 249).

\* the classify step of request p that ended with the classifier's answer
\* reply, parsed
Answered(p, reply) ==
  /\ req[p].pc = "classify"
  /\ reply.kind = "text" /\ Parses(provider, reply)
  /\ req'[p] = AfterClassifier(req[p], parseResponse(reply), "parsed",
                               analysisService, researchService)

\* C25: the analysis that a classify step completes has confidence 0.9 if
\* the score lookup found a score; otherwise the confidence that the
\* classifier's answer reported, whatever its value (0 too), if the
\* classifier answered; otherwise the fallback 0.5.
C25_ConfidenceOfMerge ==
  [][\A p \in Procs :
       LET r == req[p]
           r2 == req'[p]
       IN (r.pc = "classify" /\ Len(r2.analyses) = Len(r.analyses) + 1) =>
            /\ r.ewgData.found => Last(r2).confidence = 9
            /\ ~r.ewgData.found =>
                 /\ \A reply \in ConfidenceReplies :
                      (Answered(p, reply) /\ reply.confidence # NoNumber)
                        => Last(r2).confidence = reply.confidence
                 /\ r2.calls.classifier \in {"error", "unparseable"}
                      => Last(r2).confidence = 5]_vars

\* ---------------------------------------------------------------------
\* C26.  One batch: the handler's split of the text (index.ts, lines 395-412)
\* and analyzeIngredients (aiVettingService.ts, lines 237-258).

\* the name at position k of the batch has the normalized form of an earlier
\* name of the batch
Repeats(r, k) ==
  \E j \in 1..(k - 1) :
    normalizeIngredientName(r.ingredientNames[j]) = normalizeIngredientName(r.ingredientNames[k])

\* C26: within one batch a name is looked up in the cache and upserted at
\* most once: for a name that repeats an earlier name of the batch (by
\* normalized form) no cache lookup is answered and no row is written.
C26_NameOncePerBatch ==
  \A p \in Procs :
    LET r == req[p]
    IN (r.endpoint = "vet" /\ r.i >= 1 /\ Repeats(r, r.i)) =>
         r.calls.read = "none" /\ r.calls.writes = 0

\* Two requests with the Groq classifier and the citation search, without the
\* cache: a batch of up to two names and a single name, in any interleaving.
SharedPages == {pg \in Pages : pg.resp = "ok" /\ pg.number \in {NoNumber, 9} /\ pg.hasLink = (pg.number # NoNumber)}
SharedOutcomes == {o \in SearchOutcomes : o.kind = "none"}
SharedReplies ==
  {rp \in Replies : \/ rp.kind = "decommissioned"
                    \/ /\ rp.form = "json" /\ rp.status = "safe"
                       /\ rp.confidence = NoNumber /\ rp.texts}

InitShared == Init /\ ~analysisService /\ researchService /\ provider = "groq"

NextShared ==
  \/ \E items \in Batches({<<"a">>}, 2) : Submit("r1", items, "admin_jwt")
  \/ Submit("r2", <<<<"a">>>>, "admin_jwt")
  \/ \E p \in {"r1", "r2"}, page \in SharedPages : EwgDirect(p, page)
  \/ \E p \in {"r1", "r2"}, page \in SharedPages : EwgSearch(p, page)
  \/ \E p \in {"r1", "r2"}, outcome \in SharedOutcomes : SearchStep(p, outcome)
  \/ \E p \in {"r1", "r2"}, reply \in SharedReplies : GroqReply(p, reply)
  \/ Delay("r1")
  \/ \E answers \in SeqsUpTo(CitationAnswers, 2) : Enhance("r1", answers)
  \/ \E answers \in SeqsUpTo(CitationAnswers, 1) : Enhance("r2", answers)

SpecShared == InitShared /\ [][NextShared]_vars

\* ---------------------------------------------------------------------
\* C27.  The state that outlives one analyzeIngredient call: the fields of
\* ResearchService (researchService.ts, 17-20, 87-96), of GroqProvider
\* (openaiProvider.ts, 107, 148-151) and the table.

\* C27 as stated: besides the table and the consecutive-error counter, no
\* state that a later ingredient or request reads is changed by a step of the
\* pipeline; the classifier backend holds none.
C27_OnlyCounterAndCache ==
  [][/\ config' = config
     /\ groqModel' = groqModel
     /\ lastRequestTime' = lastRequestTime]_vars

\* what analyzeIngredients holds when it calls analyzeIngredient for name i + 1
NextIngredient(r) ==
  [Idle EXCEPT !.endpoint = r.endpoint, !.credentials = r.credentials,
               !.ingredientNames = r.ingredientNames, !.i = r.i + 1,
               !.analyses = r.analyses]

\* C27: besides the table and the consecutive-error counter, a step of the
\* pipeline changes two fields that later ingredients and requests read:
\* GroqProvider.model, only to the model that the step's call of the Groq API
\* answered with a text, and ResearchService.lastRequestTime, only to the
\* current time when a search is sent.  The configuration never changes, a
\* step of one request leaves the locals of every other request alone, and
\* the next ingredient of a batch starts from the names and the analyses so
\* far and nothing else.
C27_SharedStateFrame ==
  [][/\ config' = config
     /\ groqModel' # groqModel =>
          \E p \in Procs :
            /\ provider = "groq" /\ req[p].pc = "classify" /\ req'[p] # req[p]
            /\ groqModel' = req[p].modelsToTry[req[p].modelIdx]
     /\ lastRequestTime' # lastRequestTime =>
          \E p \in Procs :
            /\ req'[p].pc \in {"search_healthline", "search_pubmed", "search_fda"}
            /\ req'[p].pc # req[p].pc
            /\ lastRequestTime' = now
     /\ \A p \in Procs, q \in Procs : (p # q /\ req'[p] # req[p]) => req'[q] = req[q]
     /\ \A p \in Procs :
          (req[p].pc = "delay" /\ req'[p].pc # "delay") =>
             req'[p] = StartIngredient(NextIngredient(req[p]), analysisService)]_vars

\* a request starts the classifier with a fallback model that an earlier
\* request switched to, after a search was sent
C27_Witness ==
  \E p \in Procs :
    /\ req[p].pc = "classify" /\ req[p].modelIdx = 1 /\ req[p].calls.ai = 1
    /\ req[p].modelsToTry[1] = 2
    /\ lastRequestTime # NoNumber

\* ---------------------------------------------------------------------
\* C28.  CitationService.findBestCitation (seed.ts, lines 187-220) as the
\* vet endpoint calls it (index.ts, lines 414-434).

\* Batches of up to two names, one of which is not well-formed, with the
\* citation search and without the cache.
CitationNames == {<<"a">>, <<"lone_surrogate">>}
CitationReplies ==
  {rp \in Replies : /\ rp.kind = "text" /\ rp.form = "json" /\ rp.status = "safe"
                    /\ rp.confidence = NoNumber /\ rp.texts}

InitCitation == Init /\ ~analysisService /\ researchService /\ provider = "gemini"

NextCitation ==
  \/ Orchestrate({"r1"}, Batches(CitationNames, 2), CachePages)
  \/ \E outcome \in SharedOutcomes : SearchStep("r1", outcome)
  \/ \E reply \in CitationReplies : GeminiReply("r1", reply)
  \/ Delay("r1")
  \/ \E answers \in SeqsUpTo(CitationAnswers, 2) : Enhance("r1", answers)

SpecCitation == InitCitation /\ [][NextCitation]_vars

\* the URL of the highest source that yielded a usable result
ByPriority(answer) ==
  CASE answer.ewg = "skindeep" -> "citation_ewg"
    [] answer.ewg # "skindeep" /\ answer.fda = "item" -> "citation_fda"
    [] answer.ewg # "skindeep" /\ answer.fda # "item" /\ answer.pubmed = "item" -> "citation_pubmed"
    [] OTHER -> "search_url"

KeywordNames ==
  {<<"a">>, <<"Phthalate">>, <<"sulfate", "phthalate">>, <<"sulfate", "lone_surrogate">>}

InitKeyword ==
  /\ now = 0
  /\ rows = << >>
  /\ consecutiveErrors = 0
  /\ groqModel = 1
  /\ lastRequestTime = NoNumber
  /\ provider \in {"none", "gemini"}
  /\ analysisService = FALSE
  /\ researchService = FALSE
  /\ req = [p \in Procs |-> Idle]
  /\ products = InitialProducts
  /\ draftCall = [p \in Procs |-> NoDraftCall]

NextKeyword ==
  \/ \E items \in Batches(KeywordNames, MaxBatch) : Submit("r1", items, "none")
  \/ \E page \in UpsertPages : EwgDirect("r1", page)
  \/ \E reply \in ConcurrentReplies : GeminiReply("r1", reply)
  \/ Delay("r1")

SpecKeyword == InitKeyword /\ [][NextKeyword]_vars

\* the status that the keyword rule gives a name
ByKeyword(name) ==
  IF \E k \in DOMAIN name : toLowerCaseChar(name[k]) = "phthalate" THEN "banned"
  ELSE IF \E k \in DOMAIN name : toLowerCaseChar(name[k]) = "sulfate" THEN "caution"
  ELSE "safe"

\* C29: without a classifier backend a vet request is answered without any
\* external call, with one ingredient per name in the order of the names;
\* each status follows the keyword rule (a banned keyword: banned; else a
\* caution keyword: caution; else safe) and overallStatus is the worst of
\* them.
C29_KeywordFallback ==
  \A p \in Procs :
    LET r == req[p]
        out == r.response.ingredients
    IN (provider = "none" /\ r.endpoint = "vet") =>
         /\ r.pc = "responded"
         /\ r.calls = NoCalls
         /\ Len(out) = Len(r.ingredientNames)
         /\ \A k \in 1..Len(out) :
              /\ out[k].name = r.ingredientNames[k]
              /\ out[k].status = ByKeyword(r.ingredientNames[k])
         /\ r.response.overallStatus =
              (IF \E k \in 1..Len(out) : out[k].status = "banned" THEN "banned"
               ELSE IF \E k \in 1..Len(out) : out[k].status = "caution" THEN "caution"
               ELSE "safe")

\* C30: every ingredient of a response of the vet endpoint, from the
\* classifier path and from the keyword path, has originalStatus equal to
\* its status and isOverride false.
C30_NoOverrideAtVetting ==
  \A p \in Procs :
    \A k \in 1..Len(req[p].response.ingredients) :
      LET ingredient == req[p].response.ingredients[k]
      IN ingredient.originalStatus = ingredient.status /\ ingredient.isOverride = FALSE

\* a response of the classifier path with a banned ingredient, whose status
\* is not the default
C30_Witness ==
  \E p \in Procs :
    /\ provider = "gemini" /\ req[p].pc = "responded"
    /\ Len(req[p].response.ingredients) = 2
    /\ req[p].response.ingredients[1].status = "banned"
    /\ req[p].response.ingredients[2].status = "safe"

\* a response of the keyword path with a banned and a caution ingredient
C30_WitnessKeyword ==
  \E p \in Procs :
    /\ provider = "none" /\ req[p].pc = "responded"
    /\ Len(req[p].response.ingredients) = 3
    /\ req[p].response.ingredients[2].status = "banned"
    /\ req[p].response.ingredients[3].status = "safe"

\* ---------------------------------------------------------------------
\* C31.  The result of EWGService.searchIngredient (part_023, lines 130-196)
\* as analyzeIngredient holds it (aiVettingService.ts, line 99).

\* C31: a score lookup result with found = true has a score in 1..10; found =
\* true never comes with no score, whatever number the page parser extracted.
C31_FoundHasScore ==
  \A p \in Procs :
    req[p].ewgData.found => req[p].ewgData.score \in 1..10

\* ---------------------------------------------------------------------
\* C33.  ResearchService.searchIngredient and handleSearchError
\* (researchService.ts, lines 30-82 and 101-118).

SearchPcs == {"search_healthline", "search_pubmed", "search_fda"}

\* C33: no search request is sent while the consecutive-error counter is at
\* or above maxConsecutiveErrors, also not for the remaining sources of the
\* call in which the counter got there; and the counter never goes above
\* maxConsecutiveErrors.
C33_NoSearchWhileOpen ==
  [][/\ \A p \in Procs :
          (req'[p].pc \in SearchPcs /\ req'[p].pc # req[p].pc)
            => consecutiveErrors' < maxConsecutiveErrors
     /\ consecutiveErrors' <= maxConsecutiveErrors]_vars

\* ---------------------------------------------------------------------
\* C32.  The breaker of ResearchService.searchIngredient (researchService.ts,
\* lines 38-42) among calls that overlap.

\* Two requests of one name with the citation search, without the cache: no
\* page has a score, a search is answered with a quota error or with a result.
BreakerPages == {pg \in Pages : pg.resp = "ok" /\ pg.number = NoNumber /\ ~pg.hasLink}
BreakerOutcomes == {o \in SearchOutcomes : o.kind = "quota" \/ o.relevance = 9}
BreakerReplies == {rp \in Replies : rp.kind = "error"}
BreakerAnswers == {a \in CitationAnswers : a.ewg = "none" /\ a.fda = "none" /\ a.pubmed = "none"}

NextBreaker ==
  \/ \E p \in {"r1", "r2"} : Submit(p, <<<<"a">>>>, "none")
  \/ \E p \in {"r1", "r2"}, page \in BreakerPages : EwgDirect(p, page)
  \/ \E p \in {"r1", "r2"}, page \in BreakerPages : EwgSearch(p, page)
  \/ \E p \in {"r1", "r2"}, outcome \in BreakerOutcomes : SearchStep(p, outcome)
  \/ \E p \in {"r1", "r2"}, reply \in BreakerReplies : GeminiReply(p, reply)
  \/ \E p \in {"r1", "r2"}, answers \in SeqsUpTo(BreakerAnswers, 1) : Enhance(p, answers)

SpecBreaker == InitCitation /\ [][NextBreaker]_vars

\* the searchIngredient call of request p starts in this step
SearchStarts(p) == req[p].calls.search = 0 /\ req'[p].calls.search = 1

\* C32: when a searchIngredient call has started with the counter at a value
\* at or above maxConsecutiveErrors, every searchIngredient call that starts
\* later finds the counter at that value.
C32_BreakerStaysOpen ==
  [][\A p \in Procs, q \in Procs :
       (req[p].calls.openAt >= maxConsecutiveErrors /\ SearchStarts(q))
         => consecutiveErrors = req[p].calls.openAt]_vars

\* ---------------------------------------------------------------------
\* C34.  The external calls of one batch request: analyzeIngredients
\* (aiVettingService.ts, lines 237-258) and the handler's Promise.all over
\* analyses.map(async ...) (index.ts, lines 414-452).

\* The ingredients (positions in the batch) for which request r awaits an
\* external call.  In "enhance" the handler awaits Promise.all: every callback
\* of the map has run up to the first await of its findBestCitation call,
\* the fetch of its EWG search.
InFlight(r) ==
  IF r.pc \in {"cache_check", "ewg_direct", "ewg_search", "classify",
               "upsert_get", "update_read", "update_write", "insert"} \cup SearchPcs
  THEN {r.i}
  ELSE IF r.pc = "enhance" THEN Searched(r)
  ELSE {}

\* C34: in one batch request, external calls for two different ingredients
\* are never in flight together, the citation lookups of the handler
\* included.
C34_OneIngredientInFlight ==
  \A p \in Procs : Cardinality(InFlight(req[p])) <= 1


\* Two requests at once for names that normalize to the same key, with the
\* cache in use: a page with a score, or no page at all.
RaceNames == {<<"A">>, <<"a">>, <<"lone_surrogate">>}
RacePages == {pg \in Pages : \/ pg.resp = "ok" /\ pg.number = 9 /\ pg.hasLink
                             \/ pg.resp = "network_error"}

NextRace ==
  \/ \E p \in {"r1", "r2"}, name \in RaceNames : Submit(p, <<name>>, "admin_jwt")
  \/ \E p \in {"r1", "r2"}, page \in RacePages : EwgDirect(p, page)
  \/ \E p \in {"r1", "r2"}, page \in RacePages : EwgSearch(p, page)
  \/ \E p \in {"r1", "r2"}, reply \in ConcurrentReplies : GeminiReply(p, reply)
  \/ Store({"r1", "r2"}, BOOLEAN)

SpecRace == InitCache /\ [][NextRace]_vars

\* a call of analyzeIngredient by p is under way or has ended
Called(r) == r.pc # "idle"

\* C35: whatever the interleaving of analyzeIngredient calls of different
\* requests for names with the same normalized form, the cache has at most one
\* entry for the name and every call returns an analysis (no call ends in a
\* rejection); an insert that lost the race is only a swallowed error.
C35_RaceOneEntryAllReturn ==
  /\ \A k1 \in DOMAIN rows, k2 \in DOMAIN rows :
       rows[k1].ingredient_name = rows[k2].ingredient_name => k1 = k2
  /\ \A p \in Procs, q \in Procs :
       (p # q /\ Called(req[p]) /\ Called(req[q]) /\ KeyOf(req[p]) = KeyOf(req[q]))
         => req[p].pc # "failed"

\* the race itself: both requests missed the cache, one insert was refused by
\* the UNIQUE constraint, and both requests were answered
C35_LostInsertSwallowed ==
  \A p \in Procs, q \in Procs :
    (/\ p # q /\ req[p].pc = "responded" /\ req[q].pc = "responded"
     /\ KeyOf(req[p]) = KeyOf(req[q])
     /\ req[p].calls.read = "miss" /\ req[q].calls.read = "miss"
     /\ req[p].calls.writes = 1)
      => /\ Computed(req[q]) /\ KeyOf(req[p]) \in DOMAIN rows
         /\ Len(req[q].response.ingredients) = 1


\* the record of a call in which the score lookup gave no score and the
\* classifier gave no answer: status caution by default (line 135)
FallbackRecord(r) ==
  /\ Computed(r)
  /\ Last(r).ewgScore = NoNumber
  /\ r.calls.classifier \in {"error", "unparseable"}
  /\ Last(r).status = "caution"

\* C36: the fallback record (no score, no answer of the classifier) is never
\* written to the cache, and no request is served it as a cache hit.
C36_FallbackNotCached ==
  /\ \A p \in Procs : FallbackRecord(req[p]) => req[p].calls.writes = 0
  /\ \A p \in Procs :
       (Done(req[p]) /\ req[p].calls.read = "hit")
         => ~(Last(req[p]).ewgScore = NoNumber /\ Last(req[p]).rationale = "manual_review")


\* ------------------------------------------------- drafts of products
\* the drafts that were made from product id (the select of lines 320-325,
\* the find of memStorage.ts lines 161-164)
ExistingDrafts(id) ==
  {d \in DOMAIN products :
     products[d].editedFromProductId = id /\ products[d].status = "draft"}

Min(S) == CHOOSE x \in S : \A y \in S : x <= y
\* randomUUID(): an id that no product has and no call in flight has drawn
FreshIds ==
  DraftIds \ (DOMAIN products \cup {draftCall[q].draftId : q \in Procs})
DraftEnded(c) == c.pc \in {"idle", "returned", "threw"}
ProductIds == BaseIds \cup DraftIds

\* MemStorage.createDraftFromProduct: synchronous, one step
MemCreateDraftFromProduct(p, id) ==
  LET c == [NoDraftCall EXCEPT !.id = id, !.atCall = ExistingDrafts(id)]
  IN /\ DraftEnded(draftCall[p])
     /\ IF id \notin DOMAIN products
        THEN /\ draftCall' = [draftCall EXCEPT ![p] =
                  [c EXCEPT !.pc = "returned", !.returned = 0]]
             /\ UNCHANGED products
        ELSE IF ExistingDrafts(id) # {}
        THEN /\ draftCall' = [draftCall EXCEPT ![p] =
                  [c EXCEPT !.pc = "returned", !.returned = Min(ExistingDrafts(id))]]
             /\ UNCHANGED products
        ELSE /\ FreshIds # {}
             /\ products' =
                  (Min(FreshIds) :> ProductRow("draft", id, products[id].hasIngredients))
                    @@ products
             /\ draftCall' = [draftCall EXCEPT ![p] =
                  [c EXCEPT !.pc = "returned", !.draftId = Min(FreshIds),
                            !.returned = Min(FreshIds), !.created = TRUE]]
     /\ UNCHANGED <<now, rows, consecutiveErrors, groqModel, lastRequestTime, config, req>>

\* SupabaseStorage.createDraftFromProduct, line 314: called, getById(id) sent
createDraftFromProduct(p, id) ==
  /\ DraftEnded(draftCall[p])
  /\ draftCall' = [draftCall EXCEPT ![p] =
       [NoDraftCall EXCEPT !.pc = "get_base", !.id = id,
                           !.atCall = ExistingDrafts(id)]]
  /\ UNCHANGED <<now, rows, consecutiveErrors, groqModel, lastRequestTime, config, req,
                 products>>

\* lines 314-325: getById answered (null on an error, supabaseStorage.ts
\* lines 106-110); the select of the existing drafts is sent
DraftBase(p, ok) ==
  LET c == draftCall[p]
      found == ok /\ c.id \in DOMAIN products
  IN /\ c.pc = "get_base"
     /\ draftCall' = [draftCall EXCEPT ![p] =
          IF found
          THEN [c EXCEPT !.pc = "check_existing",
                         !.baseHasIngredients = products[c.id].hasIngredients]
          ELSE [c EXCEPT !.pc = "returned", !.returned = 0]]
     /\ UNCHANGED <<now, rows, consecutiveErrors, groqModel, lastRequestTime, config, req,
                    products>>

\* lines 320-350: the select answered (its error is not read); either
\* getById(existingDrafts[0].id) is sent, or an id is drawn and the insert
\* of the draft is sent
DraftCheck(p, ok) ==
  LET c == draftCall[p]
  IN /\ c.pc = "check_existing"
     /\ IF ok /\ ExistingDrafts(c.id) # {}
        THEN \E d \in ExistingDrafts(c.id) :
               draftCall' = [draftCall EXCEPT ![p] =
                 [c EXCEPT !.pc = "get_existing", !.draftId = d]]
        ELSE /\ FreshIds # {}
             /\ draftCall' = [draftCall EXCEPT ![p] =
                  [c EXCEPT !.pc = "insert_product", !.draftId = Min(FreshIds)]]
     /\ UNCHANGED <<now, rows, consecutiveErrors, groqModel, lastRequestTime, config, req,
                    products>>

\* lines 327-331 and 382: the getById of the draft answered, the call returns
DraftGet(p, ok) ==
  LET c == draftCall[p]
  IN /\ c.pc \in {"get_existing", "get_draft"}
     /\ draftCall' = [draftCall EXCEPT ![p] =
          [c EXCEPT !.pc = "returned",
                    !.returned = IF ok /\ c.draftId \in DOMAIN products
                                 THEN c.draftId ELSE 0]]
     /\ UNCHANGED <<now, rows, consecutiveErrors, groqModel, lastRequestTime, config, req,
                    products>>

\* lines 337-372: the insert of the draft answered; an error is thrown, else
\* the ingredients are copied if there are any
DraftInsert(p, ok) ==
  LET c == draftCall[p]
  IN /\ c.pc = "insert_product"
     /\ products' = IF ok THEN (c.draftId :> ProductRow("draft", c.id, FALSE)) @@ products
                    ELSE products
     /\ draftCall' = [draftCall EXCEPT ![p] =
          IF ~ok THEN [c EXCEPT !.pc = "threw"]
          ELSE [c EXCEPT !.created = TRUE,
                         !.pc = IF c.baseHasIngredients THEN "insert_ingredients"
                                ELSE "get_draft"]]
     /\ UNCHANGED <<now, rows, consecutiveErrors, groqModel, lastRequestTime, config, req>>

\* lines 370-382: the insert of the ingredients answered; on an error the
\* delete of the draft is sent
DraftIngredients(p, ok) ==
  LET c == draftCall[p]
  IN /\ c.pc = "insert_ingredients"
     /\ products' = IF ok THEN [products EXCEPT ![c.draftId].hasIngredients = TRUE]
                    ELSE products
     /\ draftCall' = [draftCall EXCEPT ![p] =
          [c EXCEPT !.pc = IF ok THEN "get_draft" ELSE "cleanup"]]
     /\ UNCHANGED <<now, rows, consecutiveErrors, groqModel, lastRequestTime, config, req>>

\* lines 376-379: the delete of the draft answered (its error is not read),
\* and the error of the copy is thrown
DraftCleanup(p, ok) ==
  LET c == draftCall[p]
  IN /\ c.pc = "cleanup"
     /\ products' = IF ok
                    THEN [d \in DOMAIN products \ {c.draftId} |-> products[d]]
                    ELSE products
     /\ draftCall' = [draftCall EXCEPT ![p] =
          [c EXCEPT !.pc = "threw", !.created = ~ok]]
     /\ UNCHANGED <<now, rows, consecutiveErrors, groqModel, lastRequestTime, config, req>>

\* POST /api/products/:id/edit of two requests at once, on Supabase
InitDraft == Init /\ ~analysisService /\ ~researchService /\ provider = "gemini"

NextDraft ==
  \/ \E p \in {"r1", "r2"}, id \in ProductIds : createDraftFromProduct(p, id)
  \/ \E p \in {"r1", "r2"}, ok \in BOOLEAN : DraftBase(p, ok)
  \/ \E p \in {"r1", "r2"}, ok \in BOOLEAN : DraftCheck(p, ok)
  \/ \E p \in {"r1", "r2"}, ok \in BOOLEAN : DraftGet(p, ok)
  \/ \E p \in {"r1", "r2"}, ok \in BOOLEAN : DraftInsert(p, ok)
  \/ \E p \in {"r1", "r2"}, ok \in BOOLEAN : DraftIngredients(p, ok)
  \/ \E p \in {"r1", "r2"}, ok \in BOOLEAN : DraftCleanup(p, ok)

SpecDraft == InitDraft /\ [][NextDraft]_vars

\* the same with every store call succeeding
NextDraftOk ==
  \/ \E p \in {"r1", "r2"}, id \in ProductIds : createDraftFromProduct(p, id)
  \/ \E p \in {"r1", "r2"} : DraftBase(p, TRUE)
  \/ \E p \in {"r1", "r2"} : DraftCheck(p, TRUE)
  \/ \E p \in {"r1", "r2"} : DraftGet(p, TRUE)
  \/ \E p \in {"r1", "r2"} : DraftInsert(p, TRUE)
  \/ \E p \in {"r1", "r2"} : DraftIngredients(p, TRUE)

SpecDraftOk == InitDraft /\ [][NextDraftOk]_vars

\* the in-memory storage
NextDraftMem == \E p \in {"r1", "r2"}, id \in ProductIds : MemCreateDraftFromProduct(p, id)

SpecDraftMem == InitDraft /\ [][NextDraftMem]_vars

\* C37: every product has at most one draft that was made from it, and a
\* createDraftFromProduct call made while the draft exists creates nothing
\* and returns that draft.
C37_OneDraftPerProduct ==
  /\ \A id \in ProductIds : Cardinality(ExistingDrafts(id)) <= 1
  /\ \A p \in Procs :
       draftCall[p].atCall # {}
         => /\ ~draftCall[p].created
            /\ draftCall[p].pc = "returned" => draftCall[p].returned \in draftCall[p].atCall

====
